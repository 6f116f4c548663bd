------------------------------ MODULE Settings ------------------------------
(***************************************************************************)
(* The settings window (SettingsWindow.cpp), the settings it stores, and   *)
(* the windows that take their looks from them.  "Apply" and "OK" edit one *)
(* setting after the other; an edit stores its value and then tells the    *)
(* windows, which read it again.  The program may be quit or killed        *)
(* between any two edits.                                                  *)
(*                                                                         *)
(* Features stand for the three that are stored and reloaded together:     *)
(* highlighter, spell check and tooltip.                                   *)
(***************************************************************************)
EXTENDS Naturals

CONSTANTS
  Fonts, IconSets, Themes,                \* what there is to choose from
  DefaultFont, DefaultIcons, DefaultTheme

ASSUME DefaultsAssumption ==
  DefaultFont \in Fonts /\ DefaultIcons \in IconSets /\ DefaultTheme \in Themes

VARIABLES
  stored,   \* the settings; startup is "unset" until it is first stored
  boxes,    \* what is chosen in the settings window
  edit,     \* the edit that Apply has come to
  link,     \* a link to the program is in the startup directory
  looks,    \* what each window read last
  applied   \* featuresChanged() was emitted in this run of the program

settingsVars == <<stored, boxes, edit, link, looks, applied>>

NoEdit == "none"
Edits == {NoEdit, "features", "font", "icons", "startup", "theme"}

Selections ==
  [features : BOOLEAN, font : Fonts, icons : IconSets, startup : BOOLEAN, theme : Themes]

(* Rows are made as the list is shown, subheadings in a theme and tasks in a font;
   there may be rows of several.  Nothing gives the input window its features
   when it is made: whether it shows the tooltip is not even initialised.   *)
NewLooks(is) ==
  {[features |-> b, icons |-> is.icons, input |-> is.theme, list |-> is.theme,
    headings |-> {is.theme}, rows |-> {is.font}] : b \in BOOLEAN}

(* loadCurrSettings(): the window shows what is stored.  Before it is first shown
   nothing in it can be pressed, so it is taken to be loaded as it is made. *)
Loaded(is) == [is EXCEPT !.startup = is.startup # "no"]

SettingsInit ==
  /\ stored = [features |-> TRUE, font |-> DefaultFont, icons |-> DefaultIcons,
               startup |-> "unset", theme |-> DefaultTheme]
  /\ boxes = Loaded(stored)
  /\ edit = NoEdit /\ link = FALSE /\ applied = FALSE
  /\ looks \in NewLooks(stored)

-----------------------------------------------------------------------------
ShowSettings ==
  /\ edit = NoEdit
  /\ boxes' = Loaded(stored)
  /\ UNCHANGED <<stored, edit, link, looks, applied>>

(* The user makes another choice of one thing. *)
Choose ==
  /\ edit = NoEdit
  /\ \E choice \in Selections, what \in Edits \ {NoEdit} :
       /\ choice[what] # boxes[what]
       /\ boxes' = [boxes EXCEPT ![what] = choice[what]]
  /\ UNCHANGED <<stored, edit, link, looks, applied>>

HandleApplyButton ==
  /\ edit = NoEdit
  /\ edit' = "features"
  /\ UNCHANGED <<stored, boxes, link, looks, applied>>

Store(what) == stored' = [stored EXCEPT ![what] = boxes[what]]

(* editFeatures(), and InputWindow::handleReloadFeatures() *)
EditFeatures ==
  /\ edit = "features" /\ edit' = "font"
  /\ Store("features")
  /\ looks' = [looks EXCEPT !.features = stored'.features]
  /\ applied' = TRUE
  /\ UNCHANGED <<boxes, link>>

(* editFont(), and TaskWindow::displayTaskList() *)
EditFont ==
  /\ edit = "font" /\ edit' = "icons"
  /\ Store("font")
  /\ looks' = IF stored'.font = stored.font THEN looks
              ELSE [looks EXCEPT !.rows = {stored'.font}, !.headings = {stored.theme}]
  /\ UNCHANGED <<boxes, link, applied>>

(* editIcons(), and TooltipWidget::handleReloadIcons() *)
EditIcons ==
  /\ edit = "icons" /\ edit' = "startup"
  /\ Store("icons")
  /\ looks' = IF stored'.icons = stored.icons THEN looks
              ELSE [looks EXCEPT !.icons = stored'.icons]
  /\ UNCHANGED <<boxes, link, applied>>

(* Tasuke::setRunOnStartup() may fail to make the link or to remove it, and fails
   to remove one that is not there.  What failed is stored as "no".         *)
EditRunOnStartup ==
  /\ edit = "startup" /\ edit' = "theme"
  /\ \/ /\ boxes.startup \/ link
        /\ link' = boxes.startup
        /\ stored' = [stored EXCEPT !.startup = IF boxes.startup THEN "yes" ELSE "no"]
     \/ /\ link' = link
        /\ stored' = [stored EXCEPT !.startup = "no"]
  /\ UNCHANGED <<boxes, looks, applied>>

(* Wrong on purpose: the windows are told before the theme is stored. *)
EditThemeAfterTelling ==
  /\ edit = "theme" /\ edit' = NoEdit
  /\ Store("theme")
  /\ looks' = IF boxes.theme = stored.theme THEN looks
              ELSE [looks EXCEPT !.input = stored.theme, !.list = stored.theme,
                                 !.headings = {stored.theme}, !.rows = {stored.font}]
  /\ UNCHANGED <<boxes, link, applied>>

(* editTheme(): the input window, the task window, which shows its list again, and
   the subheadings in it read the theme.                                    *)
EditTheme ==
  /\ edit = "theme" /\ edit' = NoEdit
  /\ Store("theme")
  /\ looks' = IF stored'.theme = stored.theme THEN looks
              ELSE [looks EXCEPT !.input = stored'.theme, !.list = stored'.theme,
                                 !.headings = {stored'.theme}, !.rows = {stored.font}]
  /\ UNCHANGED <<boxes, link, applied>>

(* Meanwhile the list is shown again, or a row replaced to highlight its task. *)
ShowList ==
  /\ edit = NoEdit
  /\ looks' = [looks EXCEPT !.headings = {stored.theme}, !.rows = {stored.font}]
  /\ UNCHANGED <<stored, boxes, edit, link, applied>>

ReplaceRow ==
  /\ edit = NoEdit
  /\ looks' = [looks EXCEPT !.rows = @ \cup {stored.font}]
  /\ UNCHANGED <<stored, boxes, edit, link, applied>>

(* The program ends, here or in the middle of Apply, and is started again. *)
Restart ==
  /\ edit' = NoEdit /\ applied' = FALSE
  /\ boxes' = Loaded(stored)
  /\ looks' \in NewLooks(stored)
  /\ UNCHANGED <<stored, link>>

SettingsNext ==
  \/ ShowSettings \/ Choose \/ HandleApplyButton
  \/ EditFeatures \/ EditFont \/ EditIcons \/ EditRunOnStartup \/ EditTheme
  \/ ShowList \/ ReplaceRow \/ Restart

SettingsSpec == SettingsInit /\ [][SettingsNext]_settingsVars

-----------------------------------------------------------------------------
(* Every variable has its type. *)
TypeOKSettings ==
  /\ stored \in [features : BOOLEAN, font : Fonts, icons : IconSets,
                 startup : {"unset", "yes", "no"}, theme : Themes]
  /\ boxes \in Selections /\ edit \in Edits
  /\ link \in BOOLEAN /\ applied \in BOOLEAN
  /\ looks \in [features : BOOLEAN, icons : IconSets, input : Themes, list : Themes,
                headings : SUBSET Themes, rows : SUBSET Fonts]

(* Whatever was chosen, applied, cut short and started again, no window looks other
   than the settings say once Apply is through: every row has the font, every
   subheading the theme that is stored.  The features do so once Apply was used
   in this run of the program, and the program is started with the system if
   the settings say that it was set up to be.                               *)
LooksAsStored ==
  /\ edit = NoEdit =>
       /\ looks.icons = stored.icons
       /\ {looks.input, looks.list} \cup looks.headings = {stored.theme}
       /\ looks.rows = {stored.font}
       /\ applied => looks.features = stored.features
  /\ stored.startup = "yes" => link
=============================================================================
