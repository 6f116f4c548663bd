---------------------------- MODULE CommandText ----------------------------
(***************************************************************************)
(* How the interpreter takes the text of an add or an edit apart and makes *)
(* a task of it (Interpreter.cpp 139 to 205, 314 to 347, 395 to 418).      *)
(*                                                                         *)
(* decompose() reads the text once, token by token, and hands what follows *)
(* a delimiter to the part of that delimiter; the parts are then applied   *)
(* to the task in the order a hash table yields its keys in, which is any. *)
(*                                                                         *)
(* A token is the delimiter it begins with, if any, and the name behind    *)
(* it; it may be empty, for the text is split at each single blank.  The   *)
(* values of the parts, and with them descriptions, tags and dates, are    *)
(* sequences of names with a blank between any two.                        *)
(***************************************************************************)
EXTENDS Naturals, Sequences, FiniteSets

CONSTANTS
  Names,         \* what a word or a tag may be called
  Dates,         \* the sequences of names that parseTimePeriod() can read
  Listed,        \* the tasks there are to edit
  MAXIMUM_TAGS,
  MaxTokens      \* bound: the longest text

Nameless == ""   \* the name of a delimiter that stands alone, or of no token

Value == Seq(Names \cup {Nameless})
Task == [description : Value, tags : SUBSET Value, date : Value]

NoDate == <<>>
Fresh == [description |-> <<>>, tags |-> {}, date |-> NoDate]

ASSUME NamesAssumption == Nameless \notin Names
ASSUME TasksAssumption ==
  /\ Dates \subseteq Value /\ Listed \subseteq Task
  /\ \A t \in Listed : IsFiniteSet(t.tags)
ASSUME LimitsAssumption == MAXIMUM_TAGS \in Nat /\ MaxTokens \in Nat \ {0}

(* @, # and -# with a name behind them or none, and -@, which has none: with a
   name it is a word.                                                      *)
Token ==
  {t \in [kind : {"word", "at", "hash", "dash_at", "dash_hash"}, name : Names \cup {Nameless}] :
     t.kind = "dash_at" => t.name = Nameless}

Blank == [kind |-> "word", name |-> Nameless]

(* The key of a part: of @ it is the delimiter alone, of the others the token. *)
KeyOf(t) == IF t.kind = "at" THEN [t EXCEPT !.name = Nameless] ELSE t

DescriptionKey == Blank
AtKey == [kind |-> "at", name |-> Nameless]
DashAtKey == [kind |-> "dash_at", name |-> Nameless]
Key == {DescriptionKey} \cup {KeyOf(t) : t \in {u \in Token : u.kind # "word"}}

VARIABLES
  kind,        \* of the command, "add" or "edit"
  original,    \* the task to begin with: a new one, or the one to edit
  text,        \* history: the tokens read so far
  parts,       \* what decompose() returns; a key without a value is not there
  current, expectNewDelimiter,
  keys,        \* those still to apply
  task,
  phase        \* of the command: "done" and "refused" are its ends

commandVars == <<kind, original>>
textVars == <<commandVars, text, parts, current, expectNewDelimiter, keys, task, phase>>

NoParts == [k \in Key |-> <<>>]

TextInit ==
  /\ kind = "add" /\ original = Fresh /\ task = Fresh
  /\ text = <<>> /\ parts = NoParts /\ keys = {}
  /\ current = DescriptionKey /\ expectNewDelimiter = FALSE
  /\ phase = "done"

AtRest == phase \in {"done", "refused"}

-----------------------------------------------------------------------------
(* decompose() *)

(* Another command comes; the one before leaves nothing behind. *)
BeginText ==
  /\ AtRest
  /\ \/ kind' = "add" /\ original' = Fresh
     \/ kind' = "edit" /\ original' \in Listed
  /\ task' = original'
  /\ text' = <<>> /\ parts' = NoParts /\ keys' = {}
  /\ current' = DescriptionKey /\ expectNewDelimiter' = FALSE
  /\ phase' = "reading"

(* The text of an add is trimmed; that of an edit is what follows the first blank
   behind the id, and may begin with a second one.  Neither ends with one. *)
MayFollow(t) ==
  /\ phase = "reading" /\ Len(text) < MaxTokens
  /\ kind = "add" /\ text = <<>> => t # Blank
  /\ t = Blank => Len(text) + 1 < MaxTokens

(* Wrong on purpose: any token may follow a tag. *)
MisplacedButWords(t) ==
  \/ t.kind = "at" /\ parts[AtKey] # <<>>
  \/ t.kind \in {"hash", "dash_hash"} /\ t.name = Nameless

(* Wrong on purpose: a second date is taken. *)
MisplacedButDates(t) ==
  \/ t.kind = "word" /\ expectNewDelimiter
  \/ t.kind \in {"hash", "dash_hash"} /\ t.name = Nameless

Misplaced(t) ==
  \/ t.kind = "word" /\ expectNewDelimiter
  \/ t.kind = "at" /\ parts[AtKey] # <<>>
  \/ t.kind \in {"hash", "dash_hash"} /\ t.name = Nameless

(* A value that is an empty string is overwritten, any other one added to. *)
Joined(value, name) ==
  IF value \in {<<>>, <<Nameless>>} THEN <<name>> ELSE Append(value, name)

ReadToken ==
  \E t \in Token :
    /\ MayFollow(t) /\ ~Misplaced(t)
    /\ text' = Append(text, t)
    /\ current' = IF t.kind = "word" THEN current ELSE KeyOf(t)
    /\ expectNewDelimiter' = (t.kind \notin {"word", "at"})
    /\ parts' = [parts EXCEPT ![current'] = Joined(@, t.name)]
    /\ UNCHANGED <<commandVars, keys, task, phase>>

RefuseToken ==
  \E t \in Token :
    /\ MayFollow(t) /\ Misplaced(t)
    /\ text' = Append(text, t)
    /\ phase' = "refused"
    /\ UNCHANGED <<commandVars, parts, current, expectNewDelimiter, keys, task>>

-----------------------------------------------------------------------------
(* createAddCommand() and createEditCommand() *)

IsWhole == phase = "reading" /\ text # <<>> /\ text[Len(text)] # Blank

RefuseUndescribed ==
  /\ \/ phase = "reading" /\ text = <<>>
     \/ IsWhole /\ kind = "add" /\ parts[DescriptionKey] = <<>>
  /\ phase' = "refused"
  /\ UNCHANGED <<commandVars, text, parts, current, expectNewDelimiter, keys, task>>

Decomposed ==
  /\ IsWhole
  /\ kind = "add" => parts[DescriptionKey] # <<>>
  /\ task' = IF kind = "add" THEN [task EXCEPT !.description = parts[DescriptionKey]] ELSE task
  /\ keys' = {k \in Key : parts[k] # <<>>}
  /\ phase' = "filling"
  /\ UNCHANGED <<commandVars, text, parts, current, expectNewDelimiter>>

(* QString::trimmed() *)
Trimmed(value) ==
  LET named == {i \in DOMAIN value : value[i] # Nameless}
      first == CHOOSE i \in named : \A j \in named : i <= j
      last  == CHOOSE i \in named : \A j \in named : j <= i
  IN  IF named = {} THEN <<>> ELSE SubSeq(value, first, last)

(* Task::addTag() looks at the number of tags first, then whether it is new. *)
TooManyTags == Cardinality(task.tags) >= MAXIMUM_TAGS

Refused(key) ==
  \/ key.kind = "hash" /\ TooManyTags
  \/ key.kind = "at" /\ Trimmed(parts[key]) \notin Dates

(* Wrong on purpose: the tags are those of the task as it was and the new one. *)
FilledFromOriginal(key) ==
  IF key.kind = "hash"
  THEN [task EXCEPT !.tags = original.tags \cup {Trimmed(parts[key])}]
  ELSE task

Filled(key) ==
  LET value == Trimmed(parts[key])
  IN  CASE key.kind = "hash" -> [task EXCEPT !.tags = @ \cup {value}]
        [] key.kind = "at" -> [task EXCEPT !.date = value]
        [] key.kind = "word" /\ kind = "edit" -> [task EXCEPT !.description = value]
        [] key.kind = "dash_hash" /\ kind = "edit" -> [task EXCEPT !.tags = @ \ {value}]
        [] key.kind = "dash_at" /\ kind = "edit" -> [task EXCEPT !.date = NoDate]
        [] key.kind \in {"word", "dash_hash", "dash_at"} /\ kind = "add" -> task

Fill ==
  /\ phase = "filling"
  /\ \E key \in keys :
       /\ ~Refused(key)
       /\ task' = Filled(key)
       /\ keys' = keys \ {key}
  /\ UNCHANGED <<commandVars, text, parts, current, expectNewDelimiter, phase>>

RefusePart ==
  /\ phase = "filling"
  /\ \E key \in keys : Refused(key)
  /\ phase' = "refused"
  /\ UNCHANGED <<commandVars, text, parts, current, expectNewDelimiter, keys, task>>

MakeCommand ==
  /\ phase = "filling" /\ keys = {}
  /\ phase' = "done"
  /\ UNCHANGED <<commandVars, text, parts, current, expectNewDelimiter, keys, task>>

-----------------------------------------------------------------------------
TextNext ==
  \/ BeginText \/ ReadToken \/ RefuseToken
  \/ RefuseUndescribed \/ Decomposed \/ Fill \/ RefusePart \/ MakeCommand

TextSpec == TextInit /\ [][TextNext]_textVars

-----------------------------------------------------------------------------
(* Every variable has its type; the part of a tag holds its own name, perhaps more
   than once, and nothing that was typed behind it.                        *)
TypeOKText ==
  /\ kind \in {"add", "edit"} /\ original \in Task /\ task \in Task
  /\ text \in Seq(Token) /\ current \in Key /\ expectNewDelimiter \in BOOLEAN
  /\ parts \in [Key -> Value] /\ keys \subseteq Key
  /\ \A k \in Key : k.kind \in {"hash", "dash_hash"} =>
       \A i \in DOMAIN parts[k] : parts[k][i] = k.name
  /\ phase \in {"reading", "filling", "done", "refused"}

(* What the text says, read as a whole: the words from one position on, up to the
   next delimiter, and with them the description, the tags and the date.   *)
WordsFrom(first) ==
  LET words == {i \in first .. Len(text) : \A j \in first .. i : text[j].kind = "word"}
  IN  [i \in 1 .. Cardinality(words) |-> text[first + i - 1].name]

TypedDescription == Trimmed(WordsFrom(1))

TypedTags(delimiter) ==
  {<<text[i].name>> : i \in {j \in DOMAIN text : text[j].kind = delimiter}}

IsTyped(delimiter) == \E i \in DOMAIN text : text[i].kind = delimiter

TypedDate ==
  LET i == CHOOSE j \in DOMAIN text : text[j].kind = "at"
  IN  Trimmed(<<text[i].name>> \o WordsFrom(i + 1))

(* A description of blanks empties the one of the task, a tag that is repeated is
   one tag of two words, and what is both added and removed depends on the order
   of the keys.                                                            *)
IsPlain ==
  /\ TypedDescription # <<>> \/ text[1].kind # "word"
  /\ \A i, j \in DOMAIN text :
       text[i] = text[j] /\ text[i].kind \in {"hash", "dash_hash"} => i = j
  /\ TypedTags("hash") \cap TypedTags("dash_hash") = {}
  /\ ~(IsTyped("at") /\ IsTyped("dash_at"))

(* Whatever the order the parts are applied in, the task that comes of a plain
   text is the one it describes; what an add cannot remove is passed over. *)
DoneAsTyped ==
  phase = "done" /\ text # <<>> /\ IsPlain =>
    /\ Trimmed(task.description) =
         IF TypedDescription = <<>> THEN Trimmed(original.description) ELSE TypedDescription
    /\ task.tags = (original.tags \cup TypedTags("hash"))
                     \ (IF kind = "edit" THEN TypedTags("dash_hash") ELSE {})
    /\ task.date = CASE IsTyped("at") -> TypedDate
                     [] IsTyped("dash_at") /\ ~IsTyped("at") -> NoDate
                     [] ~IsTyped("dash_at") /\ ~IsTyped("at") -> original.date

(* Texts nothing can be made of, and texts with more tags than there is room for:
   how many are removed is not counted, for it may be too late.            *)
IsMalformed ==
  \/ \E i, j \in DOMAIN text : i # j /\ text[i].kind = "at" /\ text[j].kind = "at"
  \/ \E i \in DOMAIN text : text[i].kind \in {"hash", "dash_hash"} /\ text[i].name = Nameless
  \/ \E i \in DOMAIN text :
       /\ i > 1 /\ text[i].kind = "word"
       /\ text[i - 1].kind \in {"hash", "dash_hash", "dash_at"}

IsUnusable ==
  \/ text = <<>>
  \/ kind = "add" /\ text[1].kind # "word"
  \/ IsTyped("at") /\ TypedDate \notin Dates

IsCrowded ==
  Cardinality(original.tags) + Cardinality(TypedTags("hash")) > MAXIMUM_TAGS

(* A text is refused for what it says and for nothing else, accepted only if
   there is no such thing, and never leaves a task with too many tags.     *)
JudgedByTheRules ==
  /\ phase = "refused" => IsMalformed \/ IsUnusable \/ IsCrowded
  /\ phase = "done" /\ text # <<>> => ~IsMalformed /\ ~IsUnusable
  /\ Cardinality(original.tags) <= MAXIMUM_TAGS => Cardinality(task.tags) <= MAXIMUM_TAGS

(* "All tasks must have a description." *)
AlwaysDescribed ==
  phase = "done" /\ text # <<>> => Trimmed(task.description) # <<>>
=============================================================================
