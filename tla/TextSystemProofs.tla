------------------------------ MODULE TextSystemProofs ------------------------------
EXTENDS TextSystem, SequenceTheorems, TLAPS

PageCommand ==
  OpcodeCommand
    \cup [command : {"name"}, next_char : Seq(Kinds)]
    \cup [command : {"characters"}, characters : Seq(Kinds \X Nat)]

Page == Seq(PageCommand)
PageSet == UNION {[W -> Page] : W \in SUBSET Windows}

TextTypeOK ==
  /\ active_window \in Windows
  /\ current_pageset \in PageSet
  /\ previous_page_sets \in Seq(PageSet)
  /\ textout \in Textout \cup {None}
  /\ pause # None => pause.after \in {"nothing", "new_page", "new_page_on_all", "new_paragraph"}
  /\ told \in Nat /\ begun \in Nat

\* The text t is where n displayed characters bring it, and not beyond its end.
AtPosition(t, n) ==
  /\ n = t.position - 1
  /\ (t.name = TRUE /\ t.position = 1) \/ t.position <= Len(t.chars)

\* The history is never too long, the iterator is inside it, and what was displayed
\* since the text in progress began is what its position says.
TextInv ==
  /\ TextTypeOK
  /\ Len(previous_page_sets) <= MaxHistory
  /\ IteratorIsAlive
  /\ textout # None => AtPosition(textout, told - begun)

\* The character with this number is on a page, or its page set has expired.
CanBeRead(id) ==
  \/ id \in OnPages(current_pageset) \cup expired
  \/ \E i \in DOMAIN previous_page_sets : id \in OnPages(previous_page_sets[i])

\* What a page set is.
LEMMA PageSets ==
  /\ \A set \in PageSet : DOMAIN set \subseteq Windows /\ \A w \in DOMAIN set : set[w] \in Page
  /\ \A W \in SUBSET Windows : [W -> Page] \subseteq PageSet
BY DEF PageSet

\* What is on a page: the characters of its commands.
LEMMA OnAPage ==
  ASSUME NEW page, NEW id
  PROVE  id \in OnPage(page) <=>
           \E i \in DOMAIN page :
             /\ page[i].command = "characters"
             /\ \E j \in DOMAIN page[i].characters : page[i].characters[j][2] = id
BY DEF OnPage

\* Commands that are added to a page take nothing off it (TextPage::AddAction).
LEMMA AddedCommands ==
  ASSUME NEW page \in Page, NEW commands \in Page
  PROVE  page \o commands \in Page /\ OnPage(page) \subseteq OnPage(page \o commands)
  <1>1. PICK q : q = page \o commands
    OBVIOUS
  <1>2. /\ q \in Page /\ Len(q) = Len(page) + Len(commands)
        /\ \A i \in 1 .. Len(page) + Len(commands) : i <= Len(page) => q[i] = page[i]
    BY <1>1, ConcatProperties DEF Page
  <1>3. Len(page) \in Nat /\ Len(commands) \in Nat /\ DOMAIN page = 1..Len(page) /\ DOMAIN q = 1..Len(q)
    BY <1>2, LenProperties DEF Page
  <1>4. \A i \in DOMAIN page : i \in DOMAIN q /\ q[i] = page[i]
    BY <1>2, <1>3
  <1>5. \A id : id \in OnPage(page) => id \in OnPage(q)
    BY <1>4, OnAPage
  <1> QED BY <1>1, <1>2, <1>5

\* A character that is displayed is on its page from then on (TextPage::Character).
LEMMA AddedCharacter ==
  ASSUME NEW page \in Page, NEW kind \in Kinds, NEW id \in Nat
  PROVE  /\ AddCharacter(page, <<kind, id>>) \in Page
         /\ OnPage(page) \cup {id} \subseteq OnPage(AddCharacter(page, <<kind, id>>))
  <1>1. PICK char : char = <<kind, id>>
    OBVIOUS
  <1>2. char \in Kinds \X Nat /\ char[2] = id
    BY <1>1
  <1>3. Len(page) \in Nat /\ DOMAIN page = 1..Len(page) /\ \A i \in DOMAIN page : page[i] \in PageCommand
    BY DEF Page
  <1>4. CASE page # <<>> /\ Last(page).command = "characters"
    <2>1. PICK last, n : last = Last(page) /\ n = Len(page)
      OBVIOUS
    <2>2. n \in 1..Len(page) /\ n = Len(page) /\ last = page[n] /\ last \in PageCommand /\ last.command = "characters"
      <3>1. Len(page) \in Nat \ {0}
        BY <1>4, EmptySeq DEF Page
      <3> QED BY <1>3, <1>4, <2>1, <3>1 DEF Last
    <2>3. PICK chars \in Seq(Kinds \X Nat) :
            last = [command |-> "characters", characters |-> chars]
      BY <2>2 DEF PageCommand, OpcodeCommand
    <2>4. PICK more : more = Append(chars, char)
      OBVIOUS
    <2>5. /\ more \in Seq(Kinds \X Nat) /\ Len(chars) \in Nat /\ Len(more) = Len(chars) + 1
          /\ DOMAIN chars = 1..Len(chars) /\ DOMAIN more = 1..Len(chars) + 1
          /\ more[Len(chars) + 1] = char
          /\ \A j \in 1..Len(chars) : more[j] = chars[j]
      BY <1>2, <2>4
    <2>6. PICK e : e = [command |-> "characters", characters |-> more]
      OBVIOUS
    <2>7. PICK q : q = [page EXCEPT ![n] = e]
      OBVIOUS
    <2>8. AddCharacter(page, char) = q
      <3>1. AddCharacter(page, char) = [page EXCEPT ![Len(page)].characters = Append(@, char)]
        BY <1>4 DEF AddCharacter
      <3>2. [page EXCEPT ![n].characters = Append(@, char)] = [page EXCEPT ![n] = e]
        <4>1. page[n].characters = chars
          BY <2>2, <2>3
        <4>2. [page[n] EXCEPT !.characters = Append(chars, char)] = e
          <5>1. [[command |-> "characters", characters |-> chars] EXCEPT !.characters = more]
                  = [command |-> "characters", characters |-> more]
            OBVIOUS
          <5>2. page[n] = [command |-> "characters", characters |-> chars]
            BY <2>2, <2>3
          <5> QED BY <2>4, <2>6, <5>1, <5>2, Zenon
        <4> QED BY <4>1, <4>2
      <3> QED BY <2>2, <2>7, <3>1, <3>2
    <2>9. /\ q \in Page /\ DOMAIN q = DOMAIN page /\ q[n] = e
          /\ \A i \in DOMAIN page : i # n => q[i] = page[i]
      <3>1. e \in PageCommand
        BY <2>5, <2>6 DEF PageCommand
      <3> QED BY <1>3, <2>2, <2>7, <3>1, ExceptSeq, LenProperties DEF Page
    <2>10. id \in OnPage(q)
      <3>1. n \in DOMAIN q /\ q[n].command = "characters" /\ q[n].characters = more
        BY <1>3, <2>2, <2>6, <2>9
      <3>2. Len(chars) + 1 \in DOMAIN more /\ more[Len(chars) + 1][2] = id
        BY <1>2, <2>5
      <3> QED BY <3>1, <3>2, OnAPage
    <2>11. ASSUME NEW x \in OnPage(page) PROVE x \in OnPage(q)
      <3>1. PICK i \in DOMAIN page :
              /\ page[i].command = "characters"
              /\ \E j \in DOMAIN page[i].characters : page[i].characters[j][2] = x
        BY OnAPage
      <3>2. CASE i = n
        <4>0. page[i].characters = chars
          <5>1. last.characters = chars
            BY <2>3
          <5> QED BY <2>2, <3>2, <5>1
        <4>1. PICK j \in DOMAIN chars : chars[j][2] = x
          BY <3>1, <4>0
        <4>2. j \in DOMAIN more /\ more[j][2] = x
          BY <2>5, <4>1
        <4>3. n \in DOMAIN q /\ q[n].command = "characters" /\ q[n].characters = more
          BY <1>3, <2>2, <2>6, <2>9
        <4> QED BY <4>2, <4>3, OnAPage
      <3>3. CASE i # n
        BY <2>9, <3>1, <3>3, OnAPage
      <3> QED BY <3>2, <3>3
    <2> QED BY <1>1, <2>8, <2>9, <2>10, <2>11
  <1>5. CASE ~(page # <<>> /\ Last(page).command = "characters")
    <2>1. PICK one : one = <<char>>
      OBVIOUS
    <2>2. one \in Seq(Kinds \X Nat) /\ 1 \in DOMAIN one /\ one[1] = char
      BY <1>2, <2>1
    <2>3. PICK e : e = [command |-> "characters", characters |-> one]
      OBVIOUS
    <2>4. e \in PageCommand /\ e.command = "characters" /\ e.characters = one
      BY <2>2, <2>3 DEF PageCommand
    <2>5. PICK q : q = Append(page, e)
      OBVIOUS
    <2>6. AddCharacter(page, char) = q
      BY <1>5, <2>1, <2>3, <2>5 DEF AddCharacter
    <2>7. /\ q \in Page /\ DOMAIN q = 1..Len(page) + 1 /\ q[Len(page) + 1] = e
          /\ \A i \in 1..Len(page) : q[i] = page[i]
      BY <2>4, <2>5 DEF Page
    <2>8. id \in OnPage(q)
      <3>1. Len(page) + 1 \in DOMAIN q
        BY <1>3, <2>7
      <3> QED BY <1>2, <2>2, <2>4, <2>7, <3>1, OnAPage
    <2>9. ASSUME NEW x \in OnPage(page) PROVE x \in OnPage(q)
      <3>1. \A i \in DOMAIN page : i \in DOMAIN q /\ q[i] = page[i]
        BY <1>3, <2>7
      <3> QED BY <2>9, <3>1, OnAPage
    <2> QED BY <1>1, <2>6, <2>7, <2>8, <2>9
  <1> QED BY <1>4, <1>5

\* What is on a page of the set is in the set.
LEMMA OnASet ==
  ASSUME NEW set, NEW id
  PROVE  id \in OnPages(set) <=> \E w \in DOMAIN set : id \in OnPage(set[w])
BY DEF OnPages

\* The active window has a page (TextSystem::GetCurrentPage).
LEMMA TheCurrentPage ==
  ASSUME TextTypeOK
  PROVE  GetCurrentPage \in Page
BY PageSets, EmptySeq DEF TextTypeOK, GetCurrentPage, Page

\* A page that grows takes no text off the current pages.
LEMMA GrownPage ==
  ASSUME TextTypeOK, NEW page \in Page, OnPage(GetCurrentPage) \subseteq OnPage(page)
  PROVE  /\ WithPage(page) \in PageSet
         /\ OnPages(current_pageset) \cup OnPage(page) \subseteq OnPages(WithPage(page))
  <1>1. PICK W, set : W = DOMAIN current_pageset \cup {active_window} /\ set = WithPage(page)
    OBVIOUS
  <1>2. /\ set = [w \in W |-> IF w = active_window THEN page ELSE current_pageset[w]]
        /\ W \subseteq Windows
    BY <1>1, PageSets DEF WithPage, TextTypeOK
  <1>3. set \in [W -> Page]
    BY <1>1, <1>2, PageSets DEF TextTypeOK
  <1>4. set \in PageSet
    BY <1>2, <1>3, PageSets
  <1>5. DOMAIN set = W /\ set[active_window] = page
        /\ \A w \in DOMAIN current_pageset : w # active_window => set[w] = current_pageset[w]
    BY <1>1, <1>2
  <1>6. ASSUME NEW id \in OnPages(current_pageset) PROVE id \in OnPages(set)
    <2>1. PICK w \in DOMAIN current_pageset : id \in OnPage(current_pageset[w])
      BY OnASet
    <2>2. CASE w = active_window
      <3>1. id \in OnPage(page)
        BY <2>1, <2>2 DEF GetCurrentPage
      <3> QED BY <1>1, <1>5, <3>1, OnASet
    <2>3. CASE w # active_window
      BY <1>1, <1>5, <2>1, <2>3, OnASet
    <2> QED BY <2>2, <2>3
  <1>7. \A id \in OnPage(page) : id \in OnPages(set)
    BY <1>1, <1>5, OnASet
  <1> QED BY <1>1, <1>4, <1>6, <1>7

\* What Snapshot may do to the history.
LEMMA Snapshots ==
  ASSUME TextTypeOK
  PROVE  \/ /\ Snapshot = previous_page_sets
            /\ OnPages(current_pageset) = {}
         \/ /\ Snapshot = Append(previous_page_sets, current_pageset)
            /\ DOMAIN current_pageset # {}
  <1>1. OnPage(<<>>) = {}
    BY OnAPage
  <1>2. CASE \A w \in DOMAIN current_pageset : current_pageset[w] = <<>>
    <2>1. \A id : id \notin OnPages(current_pageset)
      BY <1>1, <1>2, OnASet
    <2> QED BY <1>2, <2>1 DEF Snapshot
  <1>3. CASE ~\A w \in DOMAIN current_pageset : current_pageset[w] = <<>>
    BY <1>3 DEF Snapshot
  <1> QED BY <1>2, <1>3

\* Pages that are turned: the history stays short, and the iterator is at the end if
\* anything in the history moved (TextSystem::ExpireOldPages, NewPageOnWindow).
LEMMA TurnedHistory ==
  ASSUME TextTypeOK, Len(previous_page_sets) <= MaxHistory, IteratorIsAlive,
         NEW sets, sets \in {Snapshot, previous_page_sets},
         NEW windows, windows \in {{active_window}, DOMAIN current_pageset},
         TurnPages(sets, windows)
  PROVE  /\ current_pageset' \in PageSet
         /\ previous_page_sets' \in Seq(PageSet)
         /\ Len(previous_page_sets') <= MaxHistory
         /\ IteratorIsAlive'
  <1>1. PICK n, m : n = Len(sets) /\ m = (IF n > MaxHistory THEN n - MaxHistory ELSE 0)
    OBVIOUS
  <1>2. MaxHistory \in Nat \ {0} /\ active_window \in Windows /\ DOMAIN current_pageset \subseteq Windows
    BY TextAssumption, PageSets DEF TextTypeOK
  <1>3. sets \in Seq(PageSet) /\ n \in Nat /\ m \in 0..n /\ n - m <= MaxHistory
    <2>1. previous_page_sets \in Seq(PageSet) /\ Append(previous_page_sets, current_pageset) \in Seq(PageSet)
      BY DEF TextTypeOK
    <2>2. sets \in Seq(PageSet)
      BY <2>1, Snapshots
    <2>3. n \in Nat
      BY <1>1, <2>2
    <2> QED BY <1>1, <1>2, <2>2, <2>3
  <1>4. /\ previous_page_sets' = SubSeq(sets, m + 1, n)
        /\ previous_page_it' = IteratorAfter(windows, m)
        /\ current_pageset' = [w \in DOMAIN current_pageset \cup windows |->
                                 IF w \in windows THEN <<>> ELSE current_pageset[w]]
    BY <1>1 DEF TurnPages
  <1>5. /\ previous_page_sets' \in Seq(PageSet)
        /\ Len(previous_page_sets') = n - m
    <2>1. \A i \in m + 1..n : sets[i] \in PageSet
      BY <1>1, <1>3
    <2>2. /\ SubSeq(sets, m + 1, n) \in Seq(PageSet)
          /\ Len(SubSeq(sets, m + 1, n)) = IF m + 1 <= n THEN n - (m + 1) + 1 ELSE 0
      BY <1>3, <2>1, SubSeqProperties
    <2> QED BY <1>3, <1>4, <2>2
  <1>6. current_pageset' \in PageSet
    <2>1. PICK W : W = DOMAIN current_pageset \cup windows
      OBVIOUS
    <2>2. W \in SUBSET Windows
      BY <1>2, <2>1
    <2>3. current_pageset' \in [W -> Page]
      BY <1>4, <2>1, PageSets, EmptySeq DEF TextTypeOK, Page
    <2> QED BY <2>2, <2>3, PageSets
  <1>7. IteratorIsAlive'
    <2>1. CASE windows # {}
      BY <1>4, <2>1 DEF IteratorAfter, IteratorIsAlive
    <2>2. CASE windows = {}
      <3>1. DOMAIN current_pageset = {} /\ sets = previous_page_sets
        BY <2>2, Snapshots
      <3>2. m = 0 /\ n = Len(previous_page_sets)
        BY <1>1, <1>2, <1>3, <3>1
      <3>3. previous_page_it' = previous_page_it
        <4>1. \/ previous_page_it = End
              \/ previous_page_it \in DOMAIN previous_page_sets
          BY DEF IteratorIsAlive
        <4>2. previous_page_it \in Int
          BY <4>1 DEF End, TextTypeOK
        <4> QED BY <1>4, <2>2, <3>2, <4>2 DEF IteratorAfter
      <3>4. DOMAIN previous_page_sets' = DOMAIN previous_page_sets
        <4>1. DOMAIN previous_page_sets = 1..n /\ DOMAIN previous_page_sets' = 1..n
          BY <1>3, <1>5, <3>1, <3>2, LenProperties
        <4> QED BY <4>1
      <3> QED BY <3>3, <3>4 DEF IteratorIsAlive
    <2> QED BY <2>1, <2>2
  <1> QED BY <1>3, <1>5, <1>6, <1>7

\* After a snapshot no text is lost: what was on the current pages or in the history
\* still is in the history, or has expired.
LEMMA TurnedText ==
  ASSUME TextTypeOK, NEW windows, TurnPages(Snapshot, windows), NEW id, CanBeRead(id)
  PROVE  CanBeRead(id)'
  <1>1. PICK sets, n : sets = Snapshot /\ n = Len(sets)
    OBVIOUS
  <1>2. PICK m : m = (IF n > MaxHistory THEN n - MaxHistory ELSE 0)
    OBVIOUS
  <1>3. /\ previous_page_sets' = SubSeq(sets, m + 1, n)
        /\ expired' = expired \cup UNION {OnPages(sets[i]) : i \in 1 .. m}
    BY <1>1, <1>2 DEF TurnPages
  <1>4. /\ sets \in Seq(PageSet) /\ n \in Nat /\ DOMAIN sets = 1..n /\ m \in 0..n
        /\ id \in expired \/ \E i \in 1..n : id \in OnPages(sets[i])
    <2>1. previous_page_sets \in Seq(PageSet) /\ MaxHistory \in Nat \ {0} /\ current_pageset \in PageSet
      BY TextAssumption DEF TextTypeOK
    <2>2. PICK k, longer : k = Len(previous_page_sets) /\ longer = Append(previous_page_sets, current_pageset)
      OBVIOUS
    <2>3. /\ k \in Nat /\ DOMAIN previous_page_sets = 1..k
          /\ longer \in Seq(PageSet) /\ Len(longer) = k + 1
          /\ longer[k + 1] = current_pageset /\ \A i \in 1..k : longer[i] = previous_page_sets[i]
      BY <2>1, <2>2
    <2>4. CASE sets = previous_page_sets /\ OnPages(current_pageset) = {}
      <3>1. id \in expired \/ \E i \in 1..k : id \in OnPages(sets[i])
        BY <2>3, <2>4 DEF CanBeRead
      <3> QED BY <1>1, <1>2, <2>1, <2>2, <2>3, <2>4, <3>1
    <2>5. CASE sets = longer
      <3>1. \/ id \in expired \/ id \in OnPages(longer[k + 1])
            \/ \E i \in 1..k : id \in OnPages(longer[i])
        BY <2>3 DEF CanBeRead
      <3>2. k + 1 \in 1..k + 1 /\ \A i \in 1..k : i \in 1..k + 1
        BY <2>3
      <3>3. n = k + 1 /\ DOMAIN sets = 1..n
        BY <1>1, <2>3, <2>5, LenProperties
      <3>4. id \in expired \/ \E i \in 1..n : id \in OnPages(sets[i])
        BY <2>5, <3>1, <3>2, <3>3
      <3> QED BY <1>2, <2>1, <2>3, <2>5, <3>3, <3>4
    <2> QED BY <1>1, <2>2, <2>4, <2>5, Snapshots
  <1>5. CASE id \in expired \/ \E i \in 1..m : id \in OnPages(sets[i])
    BY <1>3, <1>5 DEF CanBeRead
  <1>6. CASE \E i \in m + 1..n : id \in OnPages(sets[i])
    <2>1. PICK i \in m + 1..n : id \in OnPages(sets[i])
      BY <1>6
    <2>2. /\ Len(SubSeq(sets, m + 1, n)) = n - m
          /\ \A j \in 1..n - m : SubSeq(sets, m + 1, n)[j] = sets[m + j]
          /\ SubSeq(sets, m + 1, n) \in Seq(PageSet)
      <3>1. \A j \in m + 1..n : sets[j] \in PageSet
        BY <1>4
      <3>2. /\ SubSeq(sets, m + 1, n) \in Seq(PageSet)
            /\ Len(SubSeq(sets, m + 1, n)) = IF m + 1 <= n THEN n - (m + 1) + 1 ELSE 0
            /\ \A j \in 1..n - (m + 1) + 1 : SubSeq(sets, m + 1, n)[j] = sets[m + 1 + j - 1]
        BY <1>4, <3>1, SubSeqProperties
      <3> QED BY <1>4, <3>2
    <2>3. i - m \in DOMAIN previous_page_sets' /\ previous_page_sets'[i - m] = sets[i]
      <3>1. i - m \in 1..n - m /\ m + (i - m) = i
        BY <1>4, <2>1
      <3>2. DOMAIN SubSeq(sets, m + 1, n) = 1..n - m
        BY <2>2, LenProperties
      <3> QED BY <1>3, <2>2, <3>1, <3>2
    <2> QED BY <2>1, <2>3 DEF CanBeRead
  <1>7. \A i \in 1..n : i \in 1..m \/ i \in m + 1..n
    BY <1>4
  <1> QED BY <1>4, <1>5, <1>6, <1>7

\* A current page that grows.
Grows(page) ==
  /\ page \in Page /\ OnPage(GetCurrentPage) \subseteq OnPage(page)
  /\ current_pageset' = WithPage(page)
  /\ UNCHANGED backlog

\* The commands of an opcode, of a name or of a pause are added to the current page.
LEMMA AddedActions ==
  ASSUME TextTypeOK, NEW commands \in Page, AddActions(commands), UNCHANGED backlog
  PROVE  \E page : Grows(page)
  <1>1. PICK page : page = GetCurrentPage \o commands
    OBVIOUS
  <1>2. page \in Page /\ OnPage(GetCurrentPage) \subseteq OnPage(page)
    BY <1>1, TheCurrentPage, AddedCommands
  <1> QED BY <1>1, <1>2 DEF AddActions, Grows

\* What Character may do: the character that is displayed is on a current page.
LEMMA DisplayedCharacter ==
  ASSUME TextTypeOK, textout # None, textout.position <= Len(textout.chars), Character,
         UNCHANGED backlog
  PROVE  /\ \E page : Grows(page)
         /\ told' = told \/ (told' = told + 1 /\ told + 1 \in OnPages(current_pageset'))
  <1>1. told \in Nat /\ told + 1 \in Nat /\ textout \in Textout
    BY DEF TextTypeOK
  <1>2. Current \in Kinds
    BY <1>1, ElementOfSeq DEF Current, Textout
  <1>3. CASE told' = told + 1 /\ current_pageset' = WithPage(AddCharacter(GetCurrentPage, <<Current, told + 1>>))
    <2>1. PICK page : page = AddCharacter(GetCurrentPage, <<Current, told + 1>>)
      OBVIOUS
    <2>2. page \in Page /\ OnPage(GetCurrentPage) \cup {told + 1} \subseteq OnPage(page)
      BY <1>1, <1>2, <2>1, TheCurrentPage, AddedCharacter
    <2>3. Grows(page)
      BY <1>3, <2>1, <2>2 DEF Grows
    <2>4. told + 1 \in OnPages(current_pageset')
      BY <2>2, <2>3, GrownPage DEF Grows
    <2> QED BY <1>3, <2>3, <2>4
  <1>4. CASE told' = told /\ current_pageset' = WithPage(GetCurrentPage)
    <2>1. Grows(GetCurrentPage)
      BY <1>4, TheCurrentPage DEF Grows
    <2> QED BY <1>4, <2>1
  <1>5. \/ told' = told + 1 /\ current_pageset' = WithPage(AddCharacter(GetCurrentPage, <<Current, told + 1>>))
        \/ told' = told /\ current_pageset' = WithPage(GetCurrentPage)
    BY DEF Character
  <1> QED BY <1>3, <1>4, <1>5

\* What a step does to the pages and the history: a page grows, the reader turns
\* pages, or the script does, and only msgHide and msgHideAll take no snapshot.
LEMMA PagesStep ==
  ASSUME TextInv, Next
  PROVE  \/ \E page : Grows(page)
         \/ /\ UNCHANGED <<current_pageset, previous_page_sets, expired>>
            /\ IteratorIsAlive'
         \/ /\ TurnPages(Snapshot, {active_window}) \/ TurnPages(Snapshot, DOMAIN current_pageset)
         \/ /\ ~(MessageOps \subseteq {"msgClear", "msgClearAll"})
            /\ \/ TurnPages(previous_page_sets, {active_window})
               \/ TurnPages(previous_page_sets, DOMAIN current_pageset)
  <1> USE DEF backlog, script
  <1>1. TextTypeOK /\ IteratorIsAlive
    BY DEF TextInv
  <1>2. CASE StartTextout \/ StartPause
    <2>1. Grows(GetCurrentPage)
      BY <1>1, <1>2, TheCurrentPage DEF StartTextout, StartPause, Grows
    <2> QED BY <2>1
  <1>3. CASE PageOpcode
    <2>1. PICK commands \in Commands : AddActions(commands)
      BY <1>3 DEF PageOpcode
    <2>2. commands \in Page
      <3>1. commands \in Seq(OpcodeCommand)
        BY TextAssumption
      <3>2. OpcodeCommand \subseteq PageCommand
        BY DEF PageCommand
      <3> QED BY <3>1, <3>2, SeqMonotonic DEF Page
    <2>3. UNCHANGED backlog
      BY <1>3 DEF PageOpcode
    <2> QED BY <1>1, <2>1, <2>2, <2>3, AddedActions
  <1>4. CASE TextWindow \/ Click \/ Skip
    BY <1>1, <1>4 DEF TextWindow, Click, Skip, IteratorIsAlive
  <1>5. CASE MessageOpcode
    <2>1. PICK op \in MessageOps :
            \/ op \in {"msgClear", "msgClearAll"} /\ TurnPages(Snapshot, {active_window})
            \/ op \in {"msgClear", "msgClearAll"} /\ TurnPages(Snapshot, DOMAIN current_pageset)
            \/ op \notin {"msgClear", "msgClearAll"} /\ TurnPages(previous_page_sets, {active_window})
            \/ op \notin {"msgClear", "msgClearAll"} /\ TurnPages(previous_page_sets, DOMAIN current_pageset)
      BY <1>5 DEF MessageOpcode
    <2> QED BY <2>1
  <1>6. CASE DisplayName
    <2>1. textout \in Textout /\ UNCHANGED backlog
      BY <1>1, <1>6 DEF DisplayName, TextTypeOK
    <2>2. PICK next : next = IF textout.chars = <<>> THEN <<>> ELSE <<Head(textout.chars)>>
      OBVIOUS
    <2>3. next \in Seq(Kinds)
      BY <2>1, <2>2 DEF Textout
    <2>4. PICK command : command = [command |-> "name", next_char |-> next]
      OBVIOUS
    <2>5. command \in PageCommand
      BY <2>3, <2>4 DEF PageCommand
    <2>6. <<command>> \in Page /\ AddActions(<<command>>)
      BY <1>6, <2>2, <2>4, <2>5 DEF DisplayName, Page
    <2> QED BY <1>1, <2>1, <2>6, AddedActions
  <1>7. CASE DisplayOneMoreCharacter \/ DisplayLastCharacter
    <2>1. Character /\ UNCHANGED backlog /\ textout # None /\ ~textout.name
      BY <1>7 DEF DisplayOneMoreCharacter, DisplayLastCharacter
    <2>2. textout.position <= Len(textout.chars)
      BY <2>1 DEF TextInv, AtPosition
    <2>3. \E page : Grows(page)
      BY <1>1, <2>1, <2>2, DisplayedCharacter
    <2> QED BY <2>3
  <1>8. CASE BackPage \/ ForwardPage
    <2>1. PICK k : /\ k = Len(previous_page_sets) /\ k \in Nat
                   /\ DOMAIN previous_page_sets = 1..k
      BY <1>1, LenProperties DEF TextTypeOK
    <2>2. /\ UNCHANGED <<current_pageset, previous_page_sets, expired>>
          /\ \/ previous_page_it' = previous_page_it \/ previous_page_it' = End
             \/ /\ previous_page_it = End /\ k + 1 > 1 /\ previous_page_it' = k
             \/ /\ previous_page_it # End /\ previous_page_it > 1
                /\ previous_page_it' = previous_page_it - 1
             \/ /\ previous_page_it \notin {End, k} /\ previous_page_it' = previous_page_it + 1
      <3>1. CASE BackPage
        <4>1. CASE previous_page_it = End
          <5>1. IF k + 1 > 1 THEN ShowPage(k + 1 - 1) ELSE UNCHANGED <<previous_page_it, text_window>>
            BY <2>1, <3>1, <4>1 DEF BackPage
          <5>2. k + 1 - 1 = k
            BY <2>1
          <5>3. UNCHANGED <<current_pageset, previous_page_sets, expired>>
            BY <3>1 DEF BackPage
          <5> QED BY <4>1, <5>1, <5>2, <5>3 DEF ShowPage
        <4>2. CASE previous_page_it # End
          BY <2>1, <3>1, <4>2 DEF BackPage, ShowPage
        <4> QED BY <4>1, <4>2
      <3>2. CASE ForwardPage
        BY <2>1, <3>2 DEF ForwardPage, ShowPage
      <3> QED BY <1>8, <3>1, <3>2
    <2>3. previous_page_it = End \/ previous_page_it \in 1..k
      BY <1>1, <2>1 DEF IteratorIsAlive
    <2>4. previous_page_it' = End \/ previous_page_it' \in 1..k
      BY <2>1, <2>2, <2>3
    <2> QED BY <2>1, <2>2, <2>4 DEF IteratorIsAlive
  <1>9. CASE PauseEnds
    <2>1. PICK after : after = pause.after
      OBVIOUS
    <2>2. after \in {"nothing", "new_page", "new_page_on_all", "new_paragraph"} /\ pause # None
      BY <1>1, <1>9, <2>1 DEF PauseEnds, TextTypeOK
    <2>3. CASE after = "nothing"
      BY <1>1, <1>9, <2>1, <2>3 DEF PauseEnds, IteratorIsAlive
    <2>4. CASE after = "new_page"
      BY <1>9, <2>1, <2>4 DEF PauseEnds
    <2>5. CASE after = "new_page_on_all"
      BY <1>9, <2>1, <2>5 DEF PauseEnds
    <2>6. CASE after = "new_paragraph"
      <3>1. PICK a, b : a = [command |-> "reset_indentation"] /\ b = [command |-> "hard_break"]
        OBVIOUS
      <3>2. a \in PageCommand /\ b \in PageCommand
        BY <3>1 DEF PageCommand, OpcodeCommand
      <3>3. <<a, b>> \in Page
        BY <3>2 DEF Page
      <3>4. AddActions(<<a, b>>) /\ UNCHANGED backlog
        BY <1>9, <2>1, <2>6, <3>1 DEF PauseEnds
      <3> QED BY <1>1, <3>3, <3>4, AddedActions
    <2> QED BY <2>2, <2>3, <2>4, <2>5, <2>6
  <1> QED BY <1>2, <1>3, <1>4, <1>5, <1>6, <1>7, <1>8, <1>9 DEF Next

\* What a step does to the text in progress.
LEMMA TextoutStep ==
  ASSUME TextInv, Next
  PROVE  /\ textout' \in Textout \cup {None}
         /\ begun' \in Nat /\ told' \in Nat
         /\ told' = told \/ (told' = told + 1 /\ told + 1 \in OnPages(current_pageset'))
         /\ textout' # None => AtPosition(textout', told' - begun')
         /\ textout # None =>
              IF textout' = None THEN told' - begun >= Len(textout.chars) - 1
              ELSE told' - begun = textout'.position - 1
  <1> USE DEF backlog, script
  <1>1. /\ TextTypeOK /\ told \in Nat /\ begun \in Nat /\ textout \in Textout \cup {None}
        /\ textout # None => AtPosition(textout, told - begun)
    BY DEF TextInv, TextTypeOK
  <1>2. CASE UNCHANGED <<textout, told, begun>>
    <2>1. textout # None => told - begun = textout.position - 1
      BY <1>1 DEF AtPosition
    <2> QED BY <1>1, <1>2, <2>1
  <1>3. CASE StartTextout
    <2>1. PICK t \in Texts : textout' = [chars |-> t.chars, name |-> t.name, position |-> 1]
      BY <1>3 DEF StartTextout
    <2>2. t.name \in BOOLEAN /\ t.chars \in Seq(Kinds) /\ (t.name \/ t.chars # <<>>)
      BY TextAssumption
    <2>3. told' = told /\ begun' = told /\ textout = None
      BY <1>3 DEF StartTextout, Executes
    <2>4. textout'.chars = t.chars /\ textout'.name = t.name /\ textout'.position = 1 /\ textout' \in Textout
      BY <2>1, <2>2 DEF Textout
    <2>5. t.name = TRUE \/ 1 <= Len(t.chars)
      BY <2>2, EmptySeq
    <2>6. AtPosition(textout', told' - begun')
      BY <1>1, <2>3, <2>4, <2>5 DEF AtPosition
    <2> QED BY <1>1, <2>3, <2>4, <2>6
  <1>4. CASE DisplayName
    <2>1. textout # None /\ textout.name /\ told' = told
      BY <1>4 DEF DisplayName
    <2>2. PICK chars, pos : chars = textout.chars /\ pos = textout.position
      OBVIOUS
    <2>3. /\ chars \in Seq(Kinds) /\ pos \in Nat \ {0} /\ Len(chars) \in Nat /\ told - begun = pos - 1
      BY <1>1, <2>1, <2>2 DEF Textout, AtPosition
    <2>4. CASE Len(chars) <= 1
      <3>1. textout' = None /\ begun' = 0
        BY <1>4, <2>2, <2>4 DEF DisplayName
      <3>2. told' - begun >= Len(chars) - 1
        BY <1>1, <2>1, <2>3, <2>4
      <3> QED BY <1>1, <2>1, <2>2, <3>1, <3>2
    <2>5. CASE ~(Len(chars) <= 1)
      <3>1. textout' = [textout EXCEPT !.name = FALSE] /\ begun' = begun
        BY <1>4, <2>2, <2>5 DEF DisplayName
      <3>2. textout' \in Textout /\ textout'.chars = chars /\ textout'.position = pos
        BY <1>1, <2>1, <2>2, <3>1 DEF Textout
      <3>3. textout' # None
        BY <3>2, TextAssumption
      <3>4. pos <= Len(chars)
        <4>1. pos = 1 \/ pos <= Len(chars)
          BY <1>1, <2>1, <2>2 DEF AtPosition
        <4> QED BY <2>3, <2>5, <4>1
      <3>5. AtPosition(textout', told' - begun')
        BY <1>1, <2>1, <2>3, <3>1, <3>2, <3>4 DEF AtPosition
      <3>6. told' - begun = textout'.position - 1
        BY <2>1, <2>3, <3>2
      <3> QED BY <1>1, <2>1, <3>1, <3>2, <3>3, <3>5, <3>6
    <2> QED BY <2>4, <2>5
  <1>5. ASSUME DisplayOneMoreCharacter \/ DisplayLastCharacter
        PROVE  /\ Character /\ UNCHANGED backlog /\ textout # None /\ ~textout.name
               /\ told' = told \/ (told' = told + 1 /\ told + 1 \in OnPages(current_pageset'))
    <2>1. Character /\ UNCHANGED backlog /\ textout # None /\ ~textout.name
      BY <1>5 DEF DisplayOneMoreCharacter, DisplayLastCharacter
    <2>2. textout.position <= Len(textout.chars)
      BY <1>1, <2>1 DEF AtPosition
    <2> QED BY <1>1, <2>1, <2>2, DisplayedCharacter
  <1>6. CASE DisplayOneMoreCharacter
    <2>1. /\ Rest # <<>> /\ begun' = begun
          /\ textout' = [textout EXCEPT !.position = NextPosition(told' # told)]
      BY <1>6 DEF DisplayOneMoreCharacter
    <2>2. PICK chars, pos : chars = textout.chars /\ pos = textout.position
      OBVIOUS
    <2>3. /\ chars \in Seq(Kinds) /\ pos \in Nat \ {0} /\ Len(chars) \in Nat /\ told - begun = pos - 1
          /\ pos <= Len(chars)
      BY <1>1, <1>5, <1>6, <2>2 DEF Textout, AtPosition
    <2>4. pos + 1 <= Len(chars)
      <3>1. CASE Len(chars) < pos + 1
        BY <2>1, <2>2, <2>3, <3>1, SubSeqEmpty DEF Rest
      <3> QED BY <2>3, <3>1
    <2>5. PICK next : next = NextPosition(told' # told)
      OBVIOUS
    <2>6. next = (IF told' # told THEN pos + 1 ELSE pos)
      BY <2>2, <2>5 DEF NextPosition
    <2>7. next \in Nat \ {0} /\ next <= Len(chars) /\ told' - begun = next - 1
      BY <1>1, <1>5, <1>6, <2>3, <2>4, <2>6
    <2>8. textout' \in Textout /\ textout'.chars = chars /\ textout'.position = next
      BY <1>1, <1>5, <1>6, <2>1, <2>2, <2>5, <2>7 DEF Textout
    <2>9. textout' # None
      BY <2>8, TextAssumption
    <2>10. AtPosition(textout', told' - begun')
      BY <2>1, <2>7, <2>8 DEF AtPosition
    <2> QED BY <1>1, <1>5, <1>6, <2>1, <2>7, <2>8, <2>9, <2>10
  <1>7. CASE DisplayLastCharacter
    <2>1. Rest = <<>> /\ textout' = None /\ begun' = 0
      BY <1>7 DEF DisplayLastCharacter
    <2>2. PICK chars, pos : chars = textout.chars /\ pos = textout.position
      OBVIOUS
    <2>3. /\ chars \in Seq(Kinds) /\ pos \in Nat \ {0} /\ Len(chars) \in Nat /\ told - begun = pos - 1
          /\ pos <= Len(chars)
      BY <1>1, <1>5, <1>7, <2>2 DEF Textout, AtPosition
    <2>4. ~(pos + 1 <= Len(chars))
      <3>1. CASE pos + 1 <= Len(chars)
        <4>1. \A i \in pos + 1..Len(chars) : chars[i] \in Kinds
          BY <2>3
        <4>2. Len(Rest) = Len(chars) - (pos + 1) + 1
          BY <2>2, <2>3, <3>1, <4>1, SubSeqProperties DEF Rest
        <4> QED BY <2>1, <2>3, <3>1, <4>2, EmptySeq
      <3> QED BY <3>1
    <2> QED BY <1>1, <1>5, <1>7, <2>1, <2>2, <2>3, <2>4
  <1>8. CASE \/ PageOpcode \/ TextWindow \/ MessageOpcode \/ StartPause
             \/ Click \/ Skip \/ BackPage \/ ForwardPage \/ PauseEnds
    <2>1. UNCHANGED <<textout, told, begun>>
      BY <1>8 DEF PageOpcode, TextWindow, MessageOpcode, StartPause, Click, Skip, BackPage,
                  ForwardPage, PauseEnds
    <2> QED BY <1>2, <2>1
  <1> QED BY <1>3, <1>4, <1>6, <1>7, <1>8 DEF Next

\* What a step does to the active window and the pause.
LEMMA PauseStep ==
  ASSUME TextTypeOK, Next
  PROVE  /\ active_window' \in Windows
         /\ pause' # None =>
              pause'.after \in {"nothing", "new_page", "new_page_on_all", "new_paragraph"}
  <1> USE DEF backlog, script
  <1>1. CASE TextWindow
    BY <1>1 DEF TextTypeOK, TextWindow
  <1>2. CASE StartPause
    BY <1>2 DEF TextTypeOK, StartPause, PauseFor
  <1>3. CASE DisplayOneMoreCharacter
    BY <1>3 DEF TextTypeOK, DisplayOneMoreCharacter, PauseFor
  <1>4. CASE Click
    <2>1. active_window' = active_window /\ (pause' = pause \/ pause' = [pause EXCEPT !.done = TRUE])
      BY <1>4 DEF Click
    <2>2. [pause EXCEPT !.done = TRUE].after = pause.after
      OBVIOUS
    <2> QED BY <1>4, <2>1, <2>2 DEF TextTypeOK, Click
  <1>5. CASE Skip
    BY <1>5 DEF TextTypeOK, Skip
  <1>6. CASE \/ StartTextout \/ PageOpcode \/ MessageOpcode \/ DisplayName \/ DisplayLastCharacter
             \/ BackPage \/ ForwardPage \/ PauseEnds
    <2>1. active_window' = active_window /\ (pause' = pause \/ pause' = None)
      BY <1>6 DEF StartTextout, PageOpcode, MessageOpcode, DisplayName, DisplayLastCharacter,
                  BackPage, ForwardPage, PauseEnds
    <2> QED BY <2>1 DEF TextTypeOK
  <1> QED BY <1>1, <1>2, <1>3, <1>4, <1>5, <1>6 DEF Next

-----------------------------------------------------------------------------
(* The invariants *)

LEMMA InitOK == Init => TextInv /\ TextCanBeReadBack
  <1> SUFFICES ASSUME Init
               PROVE  TextInv /\ TextCanBeReadBack
    OBVIOUS
  <1>1. current_pageset \in PageSet
    <2>1. current_pageset \in [{} -> Page]
      BY DEF Init
    <2> QED BY <2>1, PageSets
  <1>2. previous_page_sets \in Seq(PageSet) /\ Len(previous_page_sets) = 0
    BY EmptySeq DEF Init
  <1>3. MaxHistory \in Nat /\ 0 \in Windows
    BY TextAssumption
  <1>4. TextTypeOK
    BY <1>1, <1>2, <1>3 DEF Init, TextTypeOK
  <1>5. \A id \in 1 .. told : FALSE
    BY DEF Init
  <1> QED BY <1>2, <1>3, <1>4, <1>5 DEF Init, TextInv, IteratorIsAlive, TextCanBeReadBack

\* Every step leaves the history short and the iterator inside it, and the text in
\* progress where the displayed characters brought it.
LEMMA TextStep ==
  ASSUME TextInv, Next
  PROVE  TextInv'
  <1>1. TextTypeOK /\ Len(previous_page_sets) <= MaxHistory /\ IteratorIsAlive
    BY DEF TextInv
  <1>2. /\ current_pageset' \in PageSet /\ previous_page_sets' \in Seq(PageSet)
        /\ Len(previous_page_sets') <= MaxHistory /\ IteratorIsAlive'
    <2>1. CASE \E page : Grows(page)
      <3>1. PICK page : Grows(page)
        BY <2>1
      <3>2. current_pageset' \in PageSet
        BY <1>1, <3>1, GrownPage DEF Grows
      <3>3. UNCHANGED <<previous_page_sets, previous_page_it>>
        BY <3>1 DEF Grows, backlog
      <3> QED BY <1>1, <3>2, <3>3 DEF TextTypeOK, IteratorIsAlive
    <2>2. CASE UNCHANGED <<current_pageset, previous_page_sets, expired>> /\ IteratorIsAlive'
      BY <1>1, <2>2 DEF TextTypeOK
    <2>3. CASE TurnPages(Snapshot, {active_window}) \/ TurnPages(Snapshot, DOMAIN current_pageset)
      BY <1>1, <2>3, TurnedHistory
    <2>4. CASE \/ TurnPages(previous_page_sets, {active_window})
               \/ TurnPages(previous_page_sets, DOMAIN current_pageset)
      BY <1>1, <2>4, TurnedHistory
    <2> QED BY <2>1, <2>2, <2>3, <2>4, PagesStep
  <1> QED BY <1>1, <1>2, TextoutStep, PauseStep DEF TextInv, TextTypeOK

\* Without msgHide and msgHideAll every step keeps what was displayed readable.
LEMMA ReadableStep ==
  ASSUME MessageOps \subseteq {"msgClear", "msgClearAll"},
         TextInv, TextCanBeReadBack, Next
  PROVE  TextCanBeReadBack'
  <1>1. TextTypeOK /\ told \in Nat
    BY DEF TextInv, TextTypeOK
  <1>2. ASSUME NEW id, CanBeRead(id)
        PROVE  CanBeRead(id)'
    <2>1. CASE \E page : Grows(page)
      <3>1. PICK page : Grows(page)
        BY <2>1
      <3>2. OnPages(current_pageset) \subseteq OnPages(current_pageset')
        BY <1>1, <3>1, GrownPage DEF Grows
      <3>3. UNCHANGED <<previous_page_sets, expired>>
        BY <3>1 DEF Grows, backlog
      <3> QED BY <1>2, <3>2, <3>3 DEF CanBeRead
    <2>2. CASE UNCHANGED <<current_pageset, previous_page_sets, expired>>
      BY <1>2, <2>2 DEF CanBeRead
    <2>3. CASE TurnPages(Snapshot, {active_window}) \/ TurnPages(Snapshot, DOMAIN current_pageset)
      BY <1>1, <1>2, <2>3, TurnedText
    <2> QED BY <2>1, <2>2, <2>3, PagesStep
  <1>3. told' = told \/ (told' = told + 1 /\ told + 1 \in OnPages(current_pageset'))
    BY TextoutStep
  <1>4. ASSUME NEW id \in 1 .. told' PROVE CanBeRead(id)'
    <2>1. CASE id \in 1 .. told
      <3>1. CanBeRead(id)
        BY <2>1 DEF TextCanBeReadBack, CanBeRead
      <3> QED BY <1>2, <3>1
    <2>2. CASE id \notin 1 .. told
      <3>1. id \in OnPages(current_pageset')
        BY <1>1, <1>3, <2>2
      <3> QED BY <3>1 DEF CanBeRead
    <2> QED BY <2>1, <2>2
  <1> QED BY <1>4 DEF TextCanBeReadBack, CanBeRead

LEMMA Stutter ==
  ASSUME UNCHANGED vars
  PROVE  /\ TextInv => TextInv'
         /\ TextCanBeReadBack => TextCanBeReadBack'
BY DEF vars, backlog, script, TextInv, TextTypeOK, IteratorIsAlive, TextCanBeReadBack

\* The history has at most MAX_PAGE_HISTORY page sets, previous_page_it_ is inside
\* it, and a text in progress is where the displayed characters brought it.
THEOREM TextInvariant == Spec => []TextInv
  <1>1. Init => TextInv
    BY InitOK
  <1>2. TextInv /\ [Next]_vars => TextInv'
    BY TextStep, Stutter
  <1> QED BY <1>1, <1>2, PTL DEF Spec

\* However pages expire and are turned while the backlog is read, previous_page_it_
\* is the end of the list or one of its elements.
THEOREM IteratorStaysAlive == Spec => []IteratorIsAlive
  <1>1. TextInv => IteratorIsAlive
    BY DEF TextInv
  <1> QED BY <1>1, TextInvariant, PTL

\* A text that pages interrupt goes on where it stopped: NothingIsSkipped.
THEOREM NothingIsPassedOver == Spec => NothingIsSkipped
  <1>1. TextInv /\ [Next]_vars =>
          [textout # None =>
             IF textout' = None THEN told' - begun >= Len(textout.chars) - 1
             ELSE told' - begun = textout'.position - 1]_vars
    BY TextoutStep
  <1> QED BY <1>1, TextInvariant, PTL DEF Spec, NothingIsSkipped

\* With the opcodes that take a snapshot, no text is lost before its page set
\* expires: TextCanBeReadBack.
THEOREM TextIsKept ==
  ASSUME MessageOps \subseteq {"msgClear", "msgClearAll"}
  PROVE  Spec => []TextCanBeReadBack
  <1>1. Init => TextCanBeReadBack
    BY InitOK
  <1>2. TextInv /\ TextCanBeReadBack /\ [Next]_vars => TextCanBeReadBack'
    BY ReadableStep, Stutter
  <1> QED BY <1>1, <1>2, TextInvariant, PTL DEF Spec
=============================================================================
