------------------------------ MODULE TextSystem ------------------------------
(* The text windows of a RealLive game: what a script displays is drawn on a  *)
(* window at once and recorded on the window's page                           *)
(* (systems/base/text_page.cpp), so that the pages already read can be drawn  *)
(* again while the script waits in a pause (text_system.cpp: BackPage,        *)
(* ForwardPage, StopReadingBacklog).  A text is displayed character by        *)
(* character by a long operation that turns a full page by itself             *)
(* (textout_long_operation.cpp); where a character goes is decided by         *)
(* text_layout.cpp.  Widths are counted in half-width columns, heights in     *)
(* lines.                                                                     *)
EXTENDS Integers, Sequences, FiniteSets, FiniteSetsExt, SequencesExt

CONSTANTS
  Windows,        \* the numbers of the text windows
  Texts,          \* the texts scripts display: [name |-> BOOLEAN, chars |-> Seq(Kinds)]
  Commands,       \* the page opcodes scripts use, each the commands it adds to the page
  MessageOps,     \* which of msgClear, msgClearAll, msgHide and msgHideAll they use
  ActionOnPause,  \* R_COMMAND_MOD of each window: does a pause start a paragraph only?
  NameMode,       \* NAME_MOD: "inline", "disable" or "separate"
  Width, Height,  \* MOJI_CNT
  MaxHistory,     \* MAX_PAGE_HISTORY
  MaxChars,       \* bound: characters displayed
  MaxCommands,    \* bound: commands on the current pages
  None

Kinds == {"plain", "kinsoku", "quote", "roman", "space"}

\* a command an opcode adds to a page
OpcodeCommand ==
  [command : {"koe_marker", "hard_break", "set_indentation", "reset_indentation"}]
    \cup [command : {"font_colour"}, colour : Nat]

\* a text in progress
Textout == [chars : Seq(Kinds), name : BOOLEAN, position : Nat \ {0}]

ASSUME TextAssumption ==
  /\ 0 \in Windows
  /\ \A t \in Texts : t.name \in BOOLEAN /\ t.chars \in Seq(Kinds) /\ (t.name \/ t.chars # <<>>)
  /\ Commands \subseteq Seq(OpcodeCommand)
  /\ None \notin Textout
  /\ MessageOps \subseteq {"msgClear", "msgClearAll", "msgHide", "msgHideAll"}
  /\ ActionOnPause \in [Windows -> BOOLEAN]
  /\ NameMode \in {"inline", "disable", "separate"}
  /\ {Width, Height, MaxHistory} \subseteq Nat \ {0}

VARIABLES
  text_window,         \* window -> its layout and what is drawn on it
  active_window,
  current_pageset,     \* window -> the page being written, for the windows that have one
  previous_page_sets,  \* the page sets already read, the oldest first
  previous_page_it,    \* index of the page set on the screen, or End
  reading,             \* is_reading_backlog_
  textout,             \* the TextoutLongOperation in progress, or None
  pause,               \* the PauseLongOperation in progress, or None
  told,                \* history: characters Character() has displayed
  begun,               \* history: told when the text in progress began, or 0
  expired              \* history: characters whose last page set has expired

vars == <<text_window, active_window, current_pageset, previous_page_sets, previous_page_it,
          reading, textout, pause, told, begun, expired>>
backlog == <<previous_page_sets, previous_page_it, expired>>
script == <<textout, pause, told, begun>>

End == -1
Extended == Width + 2

-----------------------------------------------------------------------------
(* The layout of a window.                                                  *)

\* ClearWin: the layout is reset, last_token_was_name_ is not
ClearWin(win) ==
  [win EXCEPT !.x = 0, !.y = 0, !.indent = 0, !.colour = 0,
              !.glyphs = <<>>, !.koe = <<>>, !.namebox = FALSE]

NewWindow ==
  [x |-> 0, y |-> 0, indent |-> 0, colour |-> 0, glyphs |-> <<>>, koe |-> <<>>,
   namebox |-> FALSE, afterName |-> FALSE, visible |-> FALSE]

WidthFor(c) == IF c \in {"roman", "space"} THEN 1 ELSE 2
TextWidth(s) == Len(s) + Cardinality({i \in DOMAIN s : WidthFor(s[i]) = 2})
IsFull(win) == win.y >= Height

HardBreak(win) == [win EXCEPT !.x = win.indent, !.y = @ + 1]

\* the run of punctuation and roman letters after c would not fit with it
RunOverflows(x, rest) ==
  \E n \in DOMAIN rest :
    /\ \A i \in 1 .. n : rest[i] \in {"kinsoku", "roman"}
    /\ x + TextWidth(SubSeq(rest, 1, n)) > (IF rest[n] = "kinsoku" THEN Extended ELSE Width)

MustLineBreakFor(win, c, rest) ==
  LET final_x == win.x + WidthFor(c)
      squeezes == c \in {"kinsoku", "space"}
  IN  IF squeezes THEN final_x > Extended
      ELSE final_x > Width \/ RunOverflows(final_x, rest)

Broken(win, c, rest) == IF MustLineBreakFor(win, c, rest) THEN HardBreak(win) ELSE win

\* does DisplayCharacter return true?
Displays(win, c, rest) == ~IsFull(win) /\ ~IsFull(Broken(win, c, rest))

\* DisplayCharacter: an opening quote after a name indents the lines below it
DisplayCharacter(win, c, rest) ==
  LET placed == Broken([win EXCEPT !.visible = TRUE], c, rest)
      next_x == placed.x + WidthFor(c)
      indents == placed.afterName /\ NameMode # "separate" /\ c = "quote"
  IN  CASE IsFull(win) -> win
        [] ~IsFull(win) /\ IsFull(placed) -> placed
        [] OTHER -> [placed EXCEPT !.x = next_x,
                                   !.glyphs = Append(@, <<c, placed.x, placed.y, placed.colour>>),
                                   !.indent = IF indents THEN next_x ELSE @,
                                   !.afterName = FALSE]

\* SetName: a name stands for one character
SetName(win, next_char) ==
  CASE NameMode = "inline" ->
         LET named == DisplayCharacter(win, "plain", next_char)
         IN  [named EXCEPT !.indent = named.x, !.afterName = TRUE]
    [] NameMode = "separate" -> [win EXCEPT !.namebox = TRUE, !.afterName = TRUE]
    [] NameMode = "disable"  -> [win EXCEPT !.afterName = TRUE]

-----------------------------------------------------------------------------
(* Pages.  A command is a record with a field "command"; the characters of a *)
(* command are pairs of a kind and the number of the character in "told".    *)

KindsOf(chars) == [i \in DOMAIN chars |-> chars[i][1]]

\* PrintTextToFunction
DisplayText(win, kinds) ==
  LET drawn[n \in 0 .. Len(kinds)] ==
        IF n = 0 THEN win
        ELSE DisplayCharacter(drawn[n - 1], kinds[n], SubSeq(kinds, n + 1, Len(kinds)))
  IN  drawn[Len(kinds)]

RunTextPageCommand(win, c, is_active_page) ==
  CASE c.command = "characters" -> DisplayText(win, KindsOf(c.characters))
    [] c.command = "name" -> SetName(win, c.next_char)
    [] c.command = "koe_marker" ->
         IF is_active_page THEN win ELSE [win EXCEPT !.koe = Append(@, <<win.x, win.y>>)]
    [] c.command = "hard_break" -> HardBreak(win)
    [] c.command = "set_indentation" -> [win EXCEPT !.indent = win.x]
    [] c.command = "reset_indentation" -> [win EXCEPT !.indent = 0]
    [] c.command = "font_colour" ->
         IF is_active_page THEN [win EXCEPT !.colour = c.colour] ELSE win

\* COLOR_TABLE.254, the colour of the pages already read
BacklogColour == 254

Replay(win, page, is_active_page) ==
  LET start == IF is_active_page THEN win ELSE [win EXCEPT !.colour = BacklogColour]
  IN  FoldLeft(LAMBDA w, c : RunTextPageCommand(w, c, is_active_page), start, page)

ReplayPageSet(windows, set, is_active_page) ==
  [w \in Windows |->
     IF w \in DOMAIN set THEN Replay(windows[w], set[w], is_active_page) ELSE windows[w]]

\* Character: a character displayed joins the characters before it
AddCharacter(page, char) ==
  IF page # <<>> /\ Last(page).command = "characters"
  THEN [page EXCEPT ![Len(page)].characters = Append(@, char)]
  ELSE Append(page, [command |-> "characters", characters |-> <<char>>])

\* the characters of a page, and of a page set
OnPage(page) ==
  UNION {{page[i].characters[j][2] : j \in DOMAIN page[i].characters} :
           i \in {k \in DOMAIN page : page[k].command = "characters"}}
OnPages(set) == UNION {OnPage(set[w]) : w \in DOMAIN set}

-----------------------------------------------------------------------------
(* The text system.                                                         *)

Init ==
  /\ text_window = [w \in Windows |-> NewWindow]
  /\ active_window = 0
  /\ current_pageset = <<>>
  /\ previous_page_sets = <<>>
  /\ previous_page_it = End
  /\ reading = FALSE
  /\ textout = None /\ pause = None
  /\ told = 0 /\ begun = 0 /\ expired = {}

\* GetCurrentPage gives the active window a page when it has none
GetCurrentPage == IF active_window \in DOMAIN current_pageset THEN current_pageset[active_window] ELSE <<>>
WithPage(page) == [w \in DOMAIN current_pageset \cup {active_window} |->
                     IF w = active_window THEN page ELSE current_pageset[w]]

\* AddAction: a command is run and recorded
AddActions(commands) ==
  /\ text_window' = [text_window EXCEPT ![active_window] = Replay(@, commands, TRUE)]
  /\ current_pageset' = WithPage(GetCurrentPage \o commands)

\* Mutant of Snapshot: no page of the set may be empty.
SnapshotOfFull ==
  IF \E w \in DOMAIN current_pageset : current_pageset[w] = <<>>
  THEN previous_page_sets
  ELSE Append(previous_page_sets, current_pageset)

\* the list after push_back, unless every page of the set is empty
Snapshot ==
  IF \A w \in DOMAIN current_pageset : current_pageset[w] = <<>>
  THEN previous_page_sets
  ELSE Append(previous_page_sets, current_pageset)

\* Mutant of IteratorAfter: NewPageOnWindow leaves the iterator alone.
IteratorKept(windows, popped) == IF previous_page_it = End THEN End ELSE previous_page_it - popped

\* pop_front moves the elements of the list down; NewPageOnWindow puts the
\* iterator at the end
IteratorAfter(windows, popped) ==
  IF windows # {} \/ previous_page_it = End THEN End ELSE previous_page_it - popped

\* ExpireOldPages, after Snapshot has made the list "sets", and
\* NewPageOnWindow on each of "windows"
TurnPages(sets, windows) ==
  LET popped == IF Len(sets) > MaxHistory THEN Len(sets) - MaxHistory ELSE 0
  IN  /\ previous_page_sets' = SubSeq(sets, popped + 1, Len(sets))
      /\ previous_page_it' = IteratorAfter(windows, popped)
      /\ current_pageset' = [w \in DOMAIN current_pageset \cup windows |->
                               IF w \in windows THEN <<>> ELSE current_pageset[w]]
      /\ expired' = expired \cup UNION {OnPages(sets[i]) : i \in 1 .. popped}

Cleared(windows) ==
  [w \in Windows |-> IF w \in windows THEN ClearWin(text_window[w]) ELSE text_window[w]]

\* Mutant of Blank: the windows are hidden but not cleared.
Hidden == [w \in Windows |-> [text_window[w] EXCEPT !.visible = FALSE]]

\* the windows as they are before a page set is replayed
Blank == [w \in Windows |-> [ClearWin(text_window[w]) EXCEPT !.visible = FALSE]]

-----------------------------------------------------------------------------
(* The script: opcodes of modules/module_msg.cpp, and text.                 *)

Executes == textout = None /\ pause = None

StartTextout ==
  /\ Executes
  /\ \E t \in Texts :
       /\ told + Len(t.chars) <= MaxChars
       /\ textout' = [chars |-> t.chars, name |-> t.name, position |-> 1]
  /\ current_pageset' = WithPage(GetCurrentPage)
  /\ begun' = told
  /\ UNCHANGED <<text_window, active_window, backlog, reading, pause, told>>

\* what MaxCommands bounds
CommandsOnPages == MapThenSumSet(LAMBDA w : Len(current_pageset[w]), DOMAIN current_pageset)

PageOpcode ==
  /\ Executes
  /\ \E commands \in Commands :
       /\ CommandsOnPages + Len(commands) <= MaxCommands
       /\ AddActions(commands)
  /\ UNCHANGED <<active_window, backlog, reading, script>>

TextWindow ==
  /\ Executes
  /\ active_window' \in Windows \ {active_window}
  /\ UNCHANGED <<text_window, current_pageset, backlog, reading, script>>

\* The opcodes that clear take a snapshot and clear the active window, those
\* that hide do neither; both give every window concerned a new page.
MessageOpcode ==
  /\ Executes
  /\ \E op \in MessageOps :
       LET windows == IF op \in {"msgClearAll", "msgHideAll"} THEN DOMAIN current_pageset
                      ELSE {active_window}
           clears == op \in {"msgClear", "msgClearAll"}
       IN  /\ TurnPages(IF clears THEN Snapshot ELSE previous_page_sets, windows)
           /\ text_window' =
                IF clears THEN IF windows = {} THEN text_window ELSE Cleared({active_window})
                ELSE [w \in Windows |-> [text_window[w] EXCEPT !.visible = @ /\ w \notin windows]]
  /\ UNCHANGED <<active_window, reading, script>>

PauseFor(after) == [after |-> after, done |-> FALSE]

\* pause, page and spause; the pause looks up the number of characters on the
\* current page, which makes one
StartPause ==
  /\ Executes
  /\ ActionOnPause[active_window] => CommandsOnPages + 2 <= MaxCommands
  /\ \E after \in {"nothing", "new_page",
                   IF ActionOnPause[active_window] THEN "new_paragraph" ELSE "new_page_on_all"} :
       pause' = PauseFor(after)
  /\ current_pageset' = WithPage(GetCurrentPage)
  /\ UNCHANGED <<text_window, active_window, backlog, reading, textout, told, begun>>

-----------------------------------------------------------------------------
(* The text in progress (TextoutLongOperation).                             *)

Current == textout.chars[textout.position]
Rest == SubSeq(textout.chars, textout.position + 1, Len(textout.chars))

\* Character, and what it returns
Character ==
  LET win == text_window[active_window]
      rendered == Displays(win, Current, Rest)
  IN  /\ text_window' = [text_window EXCEPT ![active_window] = DisplayCharacter(win, Current, Rest)]
      /\ told' = IF rendered THEN told + 1 ELSE told
      /\ current_pageset' = WithPage(IF rendered THEN AddCharacter(GetCurrentPage, <<Current, told + 1>>)
                                     ELSE GetCurrentPage)

\* DisplayName: the name is displayed in one step; the text ends here when one
\* character at most follows it
DisplayName ==
  /\ textout # None /\ pause = None /\ textout.name
  /\ AddActions(<<[command |-> "name",
                   next_char |-> IF textout.chars = <<>> THEN <<>> ELSE <<Head(textout.chars)>>]>>)
  /\ IF Len(textout.chars) <= 1 THEN textout' = None /\ begun' = 0
     ELSE textout' = [textout EXCEPT !.name = FALSE] /\ UNCHANGED begun
  /\ UNCHANGED <<active_window, backlog, reading, pause, told>>

\* Mutant of NextPosition: a character that was not displayed is passed over.
PassedPosition(rendered) == textout.position + 1

\* a character that was not displayed is tried again
NextPosition(rendered) == IF rendered THEN textout.position + 1 ELSE textout.position

\* a full page is turned after a pause
DisplayOneMoreCharacter ==
  /\ textout # None /\ pause = None /\ ~textout.name
  /\ Rest # <<>>
  /\ Character
  /\ textout' = [textout EXCEPT !.position = NextPosition(told' # told)]
  /\ pause' = IF IsFull(text_window'[active_window]) THEN PauseFor("new_page") ELSE None
  /\ UNCHANGED <<active_window, backlog, reading, begun>>

\* the last character; whether it was displayed is not looked at
DisplayLastCharacter ==
  /\ textout # None /\ pause = None /\ ~textout.name
  /\ Rest = <<>>
  /\ Character
  /\ textout' = None /\ begun' = 0
  /\ UNCHANGED <<active_window, backlog, reading, pause>>

-----------------------------------------------------------------------------
(* The player, in a pause.  The events of one frame come before the          *)
(* operation looks at is_done_ (PauseEnds).                                   *)

StopReadingBacklog ==
  /\ reading' = FALSE
  /\ text_window' = ReplayPageSet(Blank, current_pageset, TRUE)

Click ==
  /\ pause # None
  /\ \/ reading /\ StopReadingBacklog /\ UNCHANGED pause
     \/ ~reading /\ pause' = [pause EXCEPT !.done = TRUE] /\ UNCHANGED <<reading, text_window>>
  /\ UNCHANGED <<active_window, current_pageset, backlog, textout, told, begun>>

\* the control key, the timer of the automatic mode, or text read before
Skip ==
  /\ pause # None /\ ~pause.done
  /\ pause' = [pause EXCEPT !.done = TRUE]
  /\ UNCHANGED <<text_window, active_window, current_pageset, backlog, reading, textout, told, begun>>

PageAt(it) == IF it = End THEN current_pageset ELSE previous_page_sets[it]

ShowPage(it) ==
  /\ previous_page_it' = it
  /\ text_window' = ReplayPageSet(Blank, PageAt(it), FALSE)

BackPage ==
  /\ pause # None
  /\ reading' = TRUE
  /\ LET size == Len(previous_page_sets)
         it == IF previous_page_it = End THEN size + 1 ELSE previous_page_it
     IN  IF it > 1 THEN ShowPage(it - 1) ELSE UNCHANGED <<previous_page_it, text_window>>
  /\ UNCHANGED <<active_window, current_pageset, previous_page_sets, expired, script>>

ForwardPage ==
  /\ pause # None
  /\ reading' = TRUE
  /\ IF previous_page_it = End THEN UNCHANGED <<previous_page_it, text_window>>
     ELSE ShowPage(IF previous_page_it = Len(previous_page_sets) THEN End ELSE previous_page_it + 1)
  /\ UNCHANGED <<active_window, current_pageset, previous_page_sets, expired, script>>

\* the operation ends, and what its decorator does then
PauseEnds ==
  /\ pause # None /\ pause.done
  /\ pause' = None
  /\ CASE pause.after = "nothing" ->
            UNCHANGED <<text_window, current_pageset, backlog>>
       [] pause.after = "new_page" ->
            /\ TurnPages(Snapshot, {active_window})
            /\ text_window' = Cleared({active_window})
       [] pause.after = "new_page_on_all" ->
            /\ TurnPages(Snapshot, DOMAIN current_pageset)
            /\ text_window' = Cleared(DOMAIN current_pageset)
       [] pause.after = "new_paragraph" ->
            /\ AddActions(<<[command |-> "reset_indentation"], [command |-> "hard_break"]>>)
            /\ UNCHANGED backlog
  /\ UNCHANGED <<active_window, reading, textout, told, begun>>

Next ==
  \/ StartTextout \/ PageOpcode \/ TextWindow \/ MessageOpcode \/ StartPause
  \/ DisplayName \/ DisplayOneMoreCharacter \/ DisplayLastCharacter
  \/ Click \/ Skip \/ BackPage \/ ForwardPage \/ PauseEnds

Spec == Init /\ [][Next]_vars

-----------------------------------------------------------------------------
(* Properties.                                                              *)

\* what a window shows: an empty window shows nothing whatever its indentation
OnScreen(win) == <<win.glyphs, win.koe, win.namebox>>

\* In a pause in which the backlog is not being read, every window shows what
\* its page says, however the script and the player came there: new pages and
\* cleared windows go together, and a page drawn again looks as it did at first
\* (TextPage::Replay, StopReadingBacklog, NewPageAfterLongop).
WindowShowsItsPage ==
  (pause # None /\ ~reading) =>
    \A w \in Windows :
      OnScreen(text_window[w]) =
        OnScreen(IF w \in DOMAIN current_pageset THEN Replay(NewWindow, current_pageset[w], TRUE)
                 ELSE NewWindow)

\* A text that was displayed can be read again: it is on the current pages or
\* in the history, until MAX_PAGE_HISTORY younger page sets have pushed it out
\* (Snapshot, ExpireOldPages).
TextCanBeReadBack ==
  \A id \in 1 .. told :
    \/ id \in OnPages(current_pageset) \cup expired
    \/ \E i \in DOMAIN previous_page_sets : id \in OnPages(previous_page_sets[i])

\* previous_page_it_ is the end of the list or one of its elements, though
\* pages expire while the backlog is read (pop_front, BackPage).
IteratorIsAlive == previous_page_it = End \/ previous_page_it \in DOMAIN previous_page_sets

\* A text in progress has been displayed up to its current character, and one
\* that ends all but its last character at most, whatever pages were turned
\* and read again meanwhile (DisplayOneMoreCharacter).
NothingIsSkipped ==
  [][textout # None =>
       IF textout' = None THEN told' - begun >= Len(textout.chars) - 1
       ELSE told' - begun = textout'.position - 1]_vars

\* While the backlog is read, the windows show the page set under the iterator.
ScreenIsUnderIterator ==
  (reading /\ pause # None /\ IteratorIsAlive) =>
    \A w \in Windows :
      LET set == PageAt(previous_page_it)
          page == IF w \in DOMAIN set THEN set[w] ELSE <<>>
      IN  \E active \in BOOLEAN :
            text_window[w].glyphs = Replay(NewWindow, page, active).glyphs
=============================================================================
