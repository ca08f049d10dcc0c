------------------------- MODULE CoveredLabelsProofs -------------------------
(***************************************************************************)
(* Theorems about CoveredLabels, for any trades, markets, horizons and     *)
(* bounds.                                                                 *)
(*                                                                         *)
(* The inductive invariant carries what a command read from one query to   *)
(* the next: its windows lie in closed sessions (Windows, Groups), no      *)
(* decision is in two groups (Apart), what was counted is still to be      *)
(* labelled or is labelled (Whole), what is prepared is as sound as what   *)
(* is stored (AllSound, Unique) and saw at least as much (Later).          *)
(***************************************************************************)
EXTENDS CoveredLabels, SequenceTheorems, TLAPS

\* The assumptions, one by one.
LEMMA Bounds ==
    /\ \A h \in Horizons : h \in Nat /\ h # 0
    /\ MaxSessions \in Nat /\ MaxTime \in Nat /\ MaxTime >= 1
BY LabelAssumption DEF LabelAssumption

USE Bounds

LabelRows == [decision : Nat, horizon : Nat, through : Nat, complete : BOOLEAN,
              path : SUBSET Nat]
WindowRows == [from : Nat, through : Nat, last : Nat]
GroupRows == [market : Markets, from : Nat, through : Nat, last : Nat, named : SUBSET Nat]
Jobs == [phase : {"idle", "markets", "replay", "conflict"}, horizons : SUBSET Horizons,
         window : SUBSET WindowRows, counted : SUBSET Nat, todo : SUBSET GroupRows,
         prepared : SUBSET LabelRows]

Spans == [first : Nat, last : Nat]
EventRows == [trade : Trades, at : Nat]

SessionsOK ==
    /\ sessions \in Seq(Spans)
    /\ \A s \in 1..Len(sessions) :
          /\ 1 <= sessions[s].first /\ sessions[s].first <= sessions[s].last
          /\ sessions[s].last <= clock
          /\ s > 1 => sessions[s - 1].last <= sessions[s].first

JournalOK ==
    /\ journal \in Seq(EventRows)
    /\ \A n \in Events : journal[n].at \in 1..clock

ObservedOK ==
    /\ clock \in 1..MaxTime /\ accepted \in 0..clock
    /\ SessionsOK /\ JournalOK
    /\ disputed \subseteq Trades

Types ==
    /\ ObservedOK
    /\ labels \subseteq LabelRows
    /\ job \in Jobs
    /\ job.phase \in {"idle", "markets"} => job.prepared = {} /\ job.todo = {}

\* A window inside one closed session, to whose end it is read.
Enclosed(w) ==
    \E s \in 1..Len(sessions) : /\ Closed(s)
                                /\ sessions[s].first <= w.from
                                /\ w.through <= w.last /\ w.last = sessions[s].last

Windows == \A w \in job.window : Enclosed(w)
Groups == \A g \in job.todo : Enclosed(g) /\ g.named \subseteq Rows(g)

\* The group is not one of decision n.
Not(g, n) == Market(n) # g.market \/ (g.named # {} /\ n \notin g.named)

Apart ==
    /\ \A g, k \in job.todo :
         \/ g = k
         \/ g.market # k.market
         \/ g.named # {} /\ k.named # {} /\ g.named \intersect k.named = {}
    /\ \A g \in job.todo : \A p \in job.prepared : Not(g, p.decision)

\* LabelsKeepToCoverage of one label.
Sound(l) ==
    /\ l.decision \in Events /\ l.horizon \in Horizons
    /\ \E s \in 1..Len(sessions) : /\ Closed(s) /\ Within(s, journal[l.decision].at)
                                   /\ l.through = sessions[s].last
    /\ l.complete <=> journal[l.decision].at + l.horizon <= l.through
    /\ l.complete => Followers(l) \ late \subseteq l.path /\ l.path \subseteq Followers(l)
    /\ ~l.complete => l.path = {}

AllSound == \A l \in labels \union job.prepared : Sound(l)

OnePerKey(set) == \A l, k \in set : SameKey(l, k) => l = k
Unique == OnePerKey(labels) /\ OnePerKey(job.prepared)

Later ==
    \A l \in labels : \A p \in job.prepared :
        SameKey(l, p) /\ l.through = p.through => l.path \subseteq p.path

\* Decision n is prepared for every horizon of the command.
Done(n) == \A h \in job.horizons : \E p \in job.prepared : p.decision = n /\ p.horizon = h

Whole ==
    /\ job.phase = "markets" =>
         \A w \in job.window : job.counted \subseteq InWindow(w.from, w.through)
    /\ job.phase = "replay" =>
         \A n \in job.counted : Done(n) \/ \E g \in job.todo : n \in Decisions(g)

Reading == Windows /\ Groups /\ Apart /\ Whole
Saying == AllSound /\ Unique /\ Later

IndInv == Types /\ Reading /\ Saying
-----------------------------------------------------------------------------
(* What the observer may do to what commands read: events and closed       *)
(* sessions stay, and what enters a closed session is late.                *)

Grows ==
    /\ Len(journal) <= Len(journal') /\ Len(journal') \in Nat
    /\ \A n \in Events : journal'[n] = journal[n]
    /\ \A s \in 1..Len(sessions) : Closed(s) =>
         /\ s \in 1..Len(sessions') /\ Closed(s)' /\ sessions'[s] = sessions[s]
         /\ \A n \in 1..Len(journal') :
              n \in Events \/ journal'[n].at > sessions[s].last \/ n \in late'
    /\ late \subseteq late'

\* The types of sessions and events, one by one.
LEMMA ObservedTypes ==
    ASSUME SessionsOK, JournalOK
    PROVE  /\ Len(sessions) \in Nat /\ Len(journal) \in Nat
           /\ \A s \in 1..Len(sessions) : sessions[s].first \in Nat /\ sessions[s].last \in Nat
           /\ \A n \in 1..Len(journal) : journal[n].trade \in Trades /\ journal[n].at \in Nat
<1>1. sessions \in Seq(Spans) /\ journal \in Seq(EventRows)
  BY DEF SessionsOK, JournalOK
<1>2. Len(sessions) \in Nat /\ Len(journal) \in Nat
  BY <1>1, LenProperties
<1>3. ASSUME NEW s \in 1..Len(sessions)
      PROVE  sessions[s].first \in Nat /\ sessions[s].last \in Nat
  <2>1. sessions[s] \in Spans
    BY <1>1, ElementOfSeq
  <2> QED BY <2>1 DEF Spans
<1>4. ASSUME NEW n \in 1..Len(journal)
      PROVE  journal[n].trade \in Trades /\ journal[n].at \in Nat
  <2>1. journal[n] \in EventRows
    BY <1>1, ElementOfSeq
  <2> QED BY <2>1 DEF EventRows
<1> QED BY <1>2, <1>3, <1>4

\* Steps that add no event and no session.
LEMMA NothingAdded ==
    ASSUME ObservedOK, UNCHANGED <<sessions, journal, late>>, clock' \in clock..MaxTime
    PROVE  SessionsOK' /\ JournalOK' /\ Grows
<1> USE ObservedTypes DEF ObservedOK
<1>1. SessionsOK'
  BY SMTT(30) DEF SessionsOK
<1>2. JournalOK'
  BY SMTT(30) DEF JournalOK, Events
<1>3. Grows
  BY SMTT(30) DEF Grows, Events, Closed
<1> QED BY <1>1, <1>2, <1>3

\* No step of the observer undoes what a command has read.
LEMMA ObserverGrows ==
    ASSUME ObservedOK, Observer
    PROVE  ObservedOK' /\ Grows /\ UNCHANGED <<labels, job>>
<1>0. SessionsOK /\ JournalOK /\ clock \in 1..MaxTime /\ accepted \in 0..clock
      /\ disputed \subseteq Trades
  BY DEF ObservedOK
<1>1. CASE Tick
  <2>1. clock' = clock + 1 /\ clock' <= MaxTime
        /\ UNCHANGED <<sessions, journal, disputed, accepted, labels, job, late>>
    BY <1>0, <1>1 DEF Tick, database
  <2>2. clock' \in 1..MaxTime /\ accepted' \in 0..clock' /\ clock' \in clock..MaxTime
    BY <1>0, <2>1
  <2>3. SessionsOK' /\ JournalOK' /\ Grows
    BY <2>1, <2>2, NothingAdded
  <2> QED BY <1>0, <2>1, <2>2, <2>3 DEF ObservedOK
<1>2. CASE Notify
  <2>1. UNCHANGED <<clock, journal, accepted, disputed, labels, job, late>>
    BY <1>2 DEF Notify
  <2>2. JournalOK'
    BY <1>0, <2>1 DEF JournalOK, Events
  <2>3. CASE sessions' = Append(sessions, [first |-> clock, last |-> clock])
    <3>0. sessions \in Seq(Spans) /\ [first |-> clock, last |-> clock] \in Spans
      BY <1>0 DEF SessionsOK, Spans
    <3>1. /\ sessions' \in Seq(Spans) /\ Len(sessions') = Len(sessions) + 1
          /\ \A s \in 1..Len(sessions) : sessions'[s] = sessions[s]
          /\ sessions'[Len(sessions) + 1] = [first |-> clock, last |-> clock]
      BY <2>3, <3>0, AppendProperties
    <3>2. ASSUME NEW s \in 1..Len(sessions')
          PROVE  /\ 1 <= sessions'[s].first /\ sessions'[s].first <= sessions'[s].last
                 /\ sessions'[s].last <= clock
                 /\ s > 1 => sessions'[s - 1].last <= sessions'[s].first
      <4>1. CASE s \in 1..Len(sessions)
        <5>1. sessions'[s] = sessions[s]
          BY <3>1, <4>1
        <5>2. s > 1 => s - 1 \in 1..Len(sessions) /\ sessions'[s - 1] = sessions[s - 1]
          BY SMTT(30), <1>0, <3>1, <4>1, ObservedTypes
        <5> QED BY <1>0, <4>1, <5>1, <5>2 DEF SessionsOK
      <4>2. CASE s = Len(sessions) + 1
        <5>1. sessions'[s].first = clock /\ sessions'[s].last = clock
          BY <3>1, <4>2
        <5>2. ASSUME s > 1 PROVE sessions'[s - 1].last <= clock
          <6>1. s - 1 \in 1..Len(sessions) /\ sessions'[s - 1] = sessions[s - 1]
            BY <1>0, <3>1, <4>2, <5>2, ObservedTypes
          <6> QED BY <1>0, <6>1 DEF SessionsOK
        <5> QED BY <1>0, <5>1, <5>2
      <4> QED BY <1>0, <3>1, <4>1, <4>2, ObservedTypes
    <3>3. SessionsOK'
      BY <3>1, <3>2, <2>1 DEF SessionsOK
    <3>4. Grows
      BY <1>0, <3>1, <2>1, ObservedTypes, SMTT(30) DEF Grows, Events, Closed
    <3> QED BY <1>0, <2>1, <2>2, <3>3, <3>4 DEF ObservedOK
  <2>4. CASE /\ sessions # <<>> /\ sessions[Len(sessions)].last # clock
             /\ sessions' = [sessions EXCEPT ![Len(sessions)].last = clock]
    <3> DEFINE n == Len(sessions)
               e == [sessions[n] EXCEPT !.last = clock]
    <3>0. n \in 1..n /\ sessions \in Seq(Spans)
      BY <1>0, <2>4, EmptySeq, LenProperties DEF SessionsOK
    <3>1. e \in Spans /\ e.first = sessions[n].first /\ e.last = clock
      <4>1. sessions[n] \in Spans
        BY <3>0, ElementOfSeq
      <4> QED BY <4>1, <1>0 DEF Spans
    <3>2. /\ sessions' \in Seq(Spans) /\ Len(sessions') = n
          /\ \A j \in 1..n : sessions'[j] = IF j = n THEN e ELSE sessions[j]
      <4>1. sessions' = [sessions EXCEPT ![n] = e]
        BY <2>4
      <4> HIDE DEF e
      <4> QED BY <3>0, <3>1, <4>1, ExceptSeq
    <3> HIDE DEF e
    <3>3. ASSUME NEW s \in 1..n
          PROVE  /\ 1 <= sessions'[s].first /\ sessions'[s].first <= sessions'[s].last
                 /\ sessions'[s].last <= clock
                 /\ s > 1 => sessions'[s - 1].last <= sessions'[s].first
      <4>1. s > 1 => /\ s - 1 \in 1..n /\ s - 1 # n
                     /\ sessions'[s - 1] = sessions[s - 1]
        BY <1>0, <3>2, ObservedTypes
      <4>2. CASE s = n
        <5>1. sessions'[s].first = sessions[s].first /\ sessions'[s].last = clock
          BY <3>1, <3>2, <4>2
        <5>2. /\ 1 <= sessions[s].first /\ sessions[s].first <= sessions[s].last
              /\ sessions[s].last <= clock
              /\ s > 1 => sessions[s - 1].last <= sessions[s].first
          BY <1>0 DEF SessionsOK
        <5>3. sessions[s].first \in Nat /\ sessions[s].last \in Nat
          BY <1>0, ObservedTypes
        <5> QED BY <1>0, <4>1, <5>1, <5>2, <5>3
      <4>3. CASE s # n
        <5>1. sessions'[s] = sessions[s]
          BY <3>2, <4>3
        <5> QED BY <1>0, <4>1, <5>1 DEF SessionsOK
      <4> QED BY <4>2, <4>3
    <3>5. SessionsOK'
      BY <3>2, <3>3, <2>1 DEF SessionsOK
    <3>6. Grows
      BY <1>0, <3>2, <2>1, ObservedTypes, SMTT(30) DEF Grows, Events, Closed
    <3> QED BY <1>0, <2>1, <2>2, <3>5, <3>6 DEF ObservedOK
  <2> QED BY <1>2, <2>3, <2>4 DEF Notify
<1>3. CASE BeginBurst
  <2>1. accepted' = clock /\ UNCHANGED <<clock, sessions, journal, disputed, labels, job, late>>
    BY <1>3 DEF BeginBurst, database
  <2>2. SessionsOK' /\ JournalOK' /\ Grows
    BY <1>0, <2>1, NothingAdded
  <2> QED BY <1>0, <2>1, <2>2 DEF ObservedOK
<1>4. ASSUME NEW t \in Trades, Commit(t) PROVE ObservedOK' /\ Grows /\ UNCHANGED <<labels, job>>
  <2>0. accepted \in 1..clock /\ UNCHANGED <<clock, sessions, accepted, disputed, labels, job>>
    BY <1>0, <1>4 DEF Commit
  <2>1. /\ journal' \in Seq(EventRows) /\ Len(journal') = Len(journal) + 1
        /\ \A n \in 1..Len(journal) : journal'[n] = journal[n]
        /\ journal'[Len(journal) + 1] = [trade |-> t, at |-> accepted]
    <3>1. journal \in Seq(EventRows) /\ [trade |-> t, at |-> accepted] \in EventRows
      BY <1>0, <2>0 DEF JournalOK, EventRows
    <3>2. journal' = Append(journal, [trade |-> t, at |-> accepted])
      BY <1>4 DEF Commit
    <3> QED BY <3>1, <3>2, AppendProperties
  <2>2. JournalOK'
    BY <1>0, <2>0, <2>1, ObservedTypes, SMTT(30) DEF JournalOK, Events
  <2>3. SessionsOK'
    BY <1>0, <2>0 DEF SessionsOK
  <2>4. late \subseteq late'
    BY <1>4 DEF Commit
  <2>5. ASSUME NEW s \in 1..Len(sessions), Closed(s)
        PROVE  accepted > sessions[s].last \/ Len(journal) + 1 \in late'
    <3>1. CASE accepted <= sessions[s].last
      BY <1>4, <2>5, <3>1 DEF Commit
    <3>2. CASE ~(accepted <= sessions[s].last)
      BY <1>0, <2>0, <3>2, ObservedTypes
    <3> QED BY <3>1, <3>2
  <2>6. ASSUME NEW s \in 1..Len(sessions), Closed(s), NEW n \in 1..Len(journal')
        PROVE  n \in Events \/ journal'[n].at > sessions[s].last \/ n \in late'
    <3>1. n \in Events \/ n = Len(journal) + 1
      BY <1>0, <2>1, ObservedTypes DEF Events
    <3> QED BY <3>1, <2>1, <2>5, <2>6
  <2>7. Grows
    BY <1>0, <2>0, <2>1, <2>4, <2>6, ObservedTypes, SMTT(30) DEF Grows, Events, Closed
  <2> QED BY <1>0, <2>0, <2>2, <2>3, <2>7 DEF ObservedOK
<1>5. ASSUME NEW n \in Events, Dispute(n) PROVE ObservedOK' /\ Grows /\ UNCHANGED <<labels, job>>
  <2>1. UNCHANGED <<clock, sessions, journal, accepted, labels, job, late>>
        /\ disputed' = disputed \union {journal[n].trade}
    BY <1>5 DEF Dispute
  <2>2. SessionsOK' /\ JournalOK' /\ Grows
    BY <1>0, <2>1, NothingAdded
  <2>3. disputed' \subseteq Trades
    BY <1>0, <2>1, ObservedTypes DEF Events
  <2> QED BY <1>0, <2>1, <2>2, <2>3 DEF ObservedOK
<1> QED BY <1>1, <1>2, <1>3, <1>4, <1>5 DEF Observer

\* What was read stays what it was, and windows only gain events.
LEMMA ReadingStays ==
    ASSUME Types, Grows, job' = job
    PROVE  /\ \A n \in Events : n \in Events' /\ Market(n)' = Market(n)
           /\ \A w : Enclosed(w) => Enclosed(w)'
           /\ \A from, through : InWindow(from, through) \subseteq InWindow(from, through)'
           /\ \A g \in GroupRows : Rows(g) \subseteq Rows(g)' /\ Decisions(g) \subseteq Decisions(g)'
<1>1. \A n \in Events : n \in Events' /\ Market(n)' = Market(n)
  BY ObservedTypes, SMTT(30) DEF Types, ObservedOK, Grows, Events, Market
<1>2. ASSUME NEW w, Enclosed(w) PROVE Enclosed(w)'
  BY <1>2, SMTT(30) DEF Enclosed, Grows
<1>3. ASSUME NEW from, NEW through PROVE InWindow(from, through) \subseteq InWindow(from, through)'
  BY <1>1, SMTT(30) DEF InWindow, Grows
<1>4. ASSUME NEW g \in GroupRows PROVE Rows(g) \subseteq Rows(g)' /\ Decisions(g) \subseteq Decisions(g)'
  <2>1. Rows(g) \subseteq Rows(g)'
    BY <1>1, <1>3 DEF Rows
  <2>2. \A n \in Rows(g) : journal'[n] = journal[n]
    BY DEF Rows, Grows
  <2> QED BY <2>1, <2>2 DEF Decisions
<1> QED BY <1>1, <1>2, <1>3, <1>4

\* A label stays sound: what follows its decision from now on is late.
LEMMA SoundStays ==
    ASSUME Types, ObservedOK', Grows, NEW l \in LabelRows, Sound(l)
    PROVE  Sound(l)'
<1>1. l.decision \in Events' /\ journal'[l.decision] = journal[l.decision]
  BY SMTT(30) DEF Sound, Grows, Events
<1>2. PICK s \in 1..Len(sessions) : /\ Closed(s) /\ Within(s, journal[l.decision].at)
                                    /\ l.through = sessions[s].last
  BY DEF Sound
<1>3. s \in 1..Len(sessions') /\ Closed(s)' /\ Within(s, journal[l.decision].at)'
      /\ l.through = sessions'[s].last
  BY <1>1, <1>2, SMTT(30) DEF Grows, Within
<1>4. ASSUME l.complete
      PROVE  /\ Followers(l) \subseteq Followers(l)'
             /\ \A m \in Followers(l)' : m \in Followers(l) \/ m \in late'
  <2>1. journal[l.decision].at \in Nat /\ l.horizon \in Nat /\ l.through \in Nat
        /\ journal[l.decision].at + l.horizon <= l.through
    <3>1. l.horizon \in Nat /\ l.through \in Nat
      BY DEF LabelRows
    <3>2. journal[l.decision].at \in Nat
      BY ObservedTypes DEF Sound, Types, ObservedOK, Events
    <3> QED BY <1>4, <3>1, <3>2 DEF Sound
  <2>2. ASSUME NEW m \in Events
        PROVE  m \in Events' /\ (m \in Followers(l) <=> m \in Followers(l)')
    BY <1>1, SMTT(30) DEF Followers, Follows, Market, Grows, Events
  <2>3. ASSUME NEW m \in Followers(l)', m \notin Events PROVE m \in late'
    <3>1. m \in 1..Len(journal') /\ journal'[m].at <= journal'[l.decision].at + l.horizon
      BY <2>3 DEF Followers, Follows, Events
    <3>2. journal'[m].at \in Nat /\ sessions[s].last \in Nat
      <4>1. SessionsOK /\ JournalOK /\ JournalOK'
        BY DEF Types, ObservedOK
      <4>2. journal' \in Seq(EventRows)
        BY <4>1 DEF JournalOK
      <4>3. journal'[m] \in EventRows
        BY <3>1, <4>2, ElementOfSeq
      <4> QED BY <4>1, <4>3, <1>2, ObservedTypes DEF EventRows
    <3>3. journal'[l.decision] = journal[l.decision]
      BY <1>1, <1>4 DEF Grows
    <3>4. journal'[m].at <= l.through
      BY <3>1, <3>2, <3>3, <2>1
    <3> QED BY <3>1, <3>2, <3>4, <1>1, <1>2, <2>3, SMTT(30) DEF Grows
  <2>4. Followers(l) \subseteq Events
    BY DEF Followers
  <2> QED BY <2>2, <2>3, <2>4
<1>5. l.complete => Followers(l)' \ late' \subseteq l.path /\ l.path \subseteq Followers(l)'
  BY <1>4 DEF Sound, Grows
<1> QED BY <1>1, <1>3, <1>5 DEF Sound

\* A command's view survives the observer's step.
LEMMA ObserverKeeps ==
    ASSUME IndInv, Observer
    PROVE  IndInv'
<1>1. ObservedOK' /\ Grows /\ labels' = labels /\ job' = job
  BY ObserverGrows DEF IndInv, Types
<1>2. Types /\ Reading /\ Saying
  BY DEF IndInv
<1>3. Types'
  BY <1>1, <1>2 DEF Types
<1>4. /\ \A n \in Events : n \in Events' /\ Market(n)' = Market(n)
      /\ \A w : Enclosed(w) => Enclosed(w)'
      /\ \A from, through : InWindow(from, through) \subseteq InWindow(from, through)'
      /\ \A g \in GroupRows : Rows(g) \subseteq Rows(g)' /\ Decisions(g) \subseteq Decisions(g)'
  BY <1>1, <1>2, ReadingStays
<1>5. job.todo \subseteq GroupRows /\ job.prepared \subseteq LabelRows
      /\ labels \subseteq LabelRows /\ job.window \subseteq WindowRows
  BY <1>2 DEF Types, Jobs
<1>6. Windows' /\ Groups'
  BY <1>1, <1>2, <1>4, <1>5, Zenon DEF Reading, Windows, Groups
<1>7. Apart'
  <2>1. \A p \in job.prepared : p.decision \in Events
    BY <1>2 DEF Saying, AllSound, Sound
  <2>2. \A g \in job.todo, p \in job.prepared : Not(g, p.decision)'
    BY <1>1, <1>2, <1>4, <2>1 DEF Reading, Apart, Not
  <2> QED BY <1>1, <1>2, <2>2 DEF Reading, Apart
<1>8. Whole'
  <2>1. ASSUME job'.phase = "markets", NEW w \in job'.window
        PROVE  job'.counted \subseteq InWindow(w.from, w.through)'
    BY <1>1, <1>2, <1>4, <2>1 DEF Reading, Whole
  <2>2. ASSUME job'.phase = "replay", NEW n \in job'.counted
        PROVE  Done(n)' \/ \E g \in job'.todo : n \in Decisions(g)'
    <3>1. CASE Done(n)
      BY <1>1, <3>1 DEF Done
    <3>2. CASE \E g \in job.todo : n \in Decisions(g)
      BY <1>1, <1>4, <1>5, <3>2
    <3> QED BY <1>1, <1>2, <2>2, <3>1, <3>2 DEF Reading, Whole
  <2> QED BY <2>1, <2>2 DEF Whole
<1>9. AllSound'
  <2>1. ASSUME NEW l \in labels \union job.prepared PROVE Sound(l)'
    BY <1>1, <1>2, <1>5, <2>1, SoundStays DEF Saying, AllSound
  <2> QED BY <1>1, <2>1 DEF AllSound
<1>10. Unique' /\ Later'
  BY <1>1, <1>2 DEF Saying, Unique, OnePerKey, Later, SameKey
<1> QED BY <1>3, <1>6, <1>7, <1>8, <1>9, <1>10 DEF IndInv, Reading, Saying
-----------------------------------------------------------------------------
(* The commands.  They change nothing the observer keeps.                  *)

Beside == UNCHANGED <<clock, sessions, journal, accepted, disputed, late>>

\* What does not change with the tables.
LEMMA BesideKeeps ==
    ASSUME Beside
    PROVE  /\ ObservedOK => ObservedOK'
           /\ Events' = Events
           /\ \A n : Market(n)' = Market(n)
           /\ \A w : Enclosed(w)' <=> Enclosed(w)
           /\ \A from, through : InWindow(from, through)' = InWindow(from, through)
           /\ \A g : Rows(g)' = Rows(g) /\ Decisions(g)' = Decisions(g)
           /\ \A g, n : Not(g, n)' <=> Not(g, n)
           /\ \A l : Sound(l)' <=> Sound(l)
<1>1. clock' = clock /\ sessions' = sessions /\ journal' = journal /\ accepted' = accepted
      /\ disputed' = disputed /\ late' = late
  BY DEF Beside
<1>2. ObservedOK => ObservedOK'
  BY <1>1 DEF ObservedOK, SessionsOK, JournalOK, Events
<1>3. Events' = Events /\ \A n : Market(n)' = Market(n)
  BY <1>1 DEF Events, Market
<1>4. \A w : Enclosed(w)' <=> Enclosed(w)
  BY <1>1 DEF Enclosed, Closed
<1>5. \A from, through : InWindow(from, through)' = InWindow(from, through)
  BY <1>1, <1>3 DEF InWindow
<1>6. \A g : Rows(g)' = Rows(g)
  BY <1>3, <1>5 DEF Rows
<1>7. \A g : Decisions(g)' = Decisions(g)
  BY <1>1, <1>6 DEF Decisions
<1>8. \A g, n : Not(g, n)' <=> Not(g, n)
  BY <1>3 DEF Not
<1>9. \A l : Followers(l)' = Followers(l)
  BY <1>1, <1>3 DEF Followers, Follows
<1>10. \A l : Sound(l)' <=> Sound(l)
  BY <1>1, <1>3, <1>9 DEF Sound, Closed, Within
<1> QED BY <1>2, <1>3, <1>4, <1>5, <1>6, <1>7, <1>8, <1>10

\* A command that has read nothing, or gives up what it read.
LEMMA IdleKeeps ==
    ASSUME IndInv, Beside, job' = Idle, labels' \subseteq LabelRows,
           \A l \in labels' : Sound(l), OnePerKey(labels')
    PROVE  IndInv'
<1>1. Types'
  BY BesideKeeps DEF IndInv, Types, Idle, Jobs
<1>2. Reading'
  BY DEF Reading, Windows, Groups, Apart, Whole, Idle
<1>3. Saying'
  BY BesideKeeps DEF Saying, AllSound, Unique, OnePerKey, SameKey, Later, Idle
<1> QED BY <1>1, <1>2, <1>3 DEF IndInv

\* A counted window lies in one closed session.
LEMMA CountKeeps ==
    ASSUME IndInv, NEW s \in 1..Len(sessions), NEW from \in 1..MaxTime,
           NEW through \in 1..MaxTime, Count(s, from, through)
    PROVE  IndInv'
<1>1. Beside /\ labels' = labels /\ Closed(s)
  BY DEF Count, database, Beside, Usable
<1> DEFINE w == [from |-> from, through |-> through, last |-> sessions[s].last]
<1>2. job' = [phase |-> "markets", horizons |-> Horizons, window |-> {w},
              counted |-> InWindow(from, through), todo |-> {}, prepared |-> {}]
  BY DEF Count, Idle
<1>3. w \in WindowRows
  BY ObservedTypes DEF IndInv, Types, ObservedOK, WindowRows
<1>4. InWindow(from, through) \subseteq Nat
  BY DEF InWindow, Events
<1>5. Enclosed(w)
  BY <1>1 DEF Count, Within, Enclosed
<1> HIDE DEF w
<1>6. Types'
  BY <1>1, <1>2, <1>3, <1>4, BesideKeeps DEF IndInv, Types, Jobs
<1>7. Reading'
  <2>1. Windows' /\ Groups'
    BY <1>1, <1>2, <1>5, BesideKeeps DEF Windows, Groups
  <2>2. Whole'
    BY <1>1, <1>2, BesideKeeps DEF Whole, w
  <2> QED BY <1>2, <2>1, <2>2 DEF Reading, Apart
<1>8. Saying'
  BY <1>1, <1>2, BesideKeeps DEF IndInv, Saying, AllSound, Unique, OnePerKey, SameKey, Later
<1> QED BY <1>6, <1>7, <1>8 DEF IndInv

\* The markets of the window include the market of every counted event.
LEMMA ListKeeps ==
    ASSUME IndInv, ListMarkets
    PROVE  IndInv'
<1>1. Beside /\ labels' = labels /\ job.phase = "markets"
  BY DEF ListMarkets, database, Beside
<1> DEFINE Group(w, n) == [market |-> Market(n), from |-> w.from, through |-> w.through,
                           last |-> w.last, named |-> {}]
<1>2. PICK w \in job.window :
         job' = [job EXCEPT !.phase = "replay", !.window = {},
                            !.todo = {Group(w, n) : n \in InWindow(w.from, w.through)}]
  BY DEF ListMarkets
<1>3. Types /\ Reading /\ Saying /\ job \in Jobs /\ w \in WindowRows
  BY <1>2 DEF IndInv, Types, Jobs
<1>4. /\ job'.phase = "replay" /\ job'.window = {} /\ job'.counted = job.counted
      /\ job'.todo = {Group(w, n) : n \in InWindow(w.from, w.through)}
      /\ job'.prepared = job.prepared /\ job'.horizons = job.horizons
      /\ job.prepared = {}
  BY <1>1, <1>2, <1>3 DEF Types, Jobs
<1>5. Enclosed(w)
  BY <1>3 DEF Reading, Windows
<1>6. ASSUME NEW n \in InWindow(w.from, w.through)
      PROVE  Group(w, n) \in GroupRows /\ Enclosed(Group(w, n)) /\ n \in Decisions(Group(w, n))
  <2>1. n \in Events /\ journal[n].trade \in Trades
    BY <1>3, ObservedTypes DEF InWindow, Types, ObservedOK, Events
  <2>2. Group(w, n) \in GroupRows
    BY <1>3, <2>1 DEF GroupRows, WindowRows, Market, Markets
  <2>3. Enclosed(Group(w, n))
    BY <1>5 DEF Enclosed
  <2>4. w.through <= w.last /\ w.last \in Nat /\ w.through \in Nat /\ w.from \in Nat
        /\ journal[n].at \in Nat
    BY <1>3, <1>5, <2>1, ObservedTypes DEF Enclosed, WindowRows, Types, ObservedOK, Events
  <2>5. n \in Decisions(Group(w, n))
    BY <2>1, <2>4 DEF Decisions, Rows, InWindow
  <2> QED BY <2>2, <2>3, <2>5
<1>7. Types'
  <2>1. job' \in Jobs
    BY ZenonT(40), <1>2, <1>3, <1>6 DEF Jobs
  <2> QED BY <1>1, <1>3, <1>4, <2>1, BesideKeeps DEF Types
<1>8. Windows' /\ Groups'
  <2>1. \A g \in job'.todo : Enclosed(g) /\ g.named = {}
    BY <1>4, <1>6
  <2> QED BY <1>1, <1>4, <2>1, BesideKeeps DEF Windows, Groups
<1>9. Apart'
  BY SMTT(30), <1>4 DEF Apart
<1>10. Whole'
  <2>1. job.counted \subseteq InWindow(w.from, w.through)
    BY <1>1, <1>2, <1>3 DEF Reading, Whole
  <2>2. ASSUME NEW n \in job.counted PROVE \E g \in job'.todo : n \in Decisions(g)'
    <3>1. Group(w, n) \in job'.todo /\ n \in Decisions(Group(w, n))
      BY <1>4, <1>6, <2>1
    <3> QED BY <1>1, <3>1, BesideKeeps
  <2> QED BY <1>4, <2>2 DEF Whole
<1>11. Saying'
  BY <1>1, <1>3, <1>4, BesideKeeps DEF Saying, AllSound, Unique, OnePerKey, SameKey, Later
<1> QED BY <1>7, <1>8, <1>9, <1>10, <1>11 DEF IndInv, Reading

(* A cohort's groups are of the sessions that its decisions name, and its  *)
(* checkpoints are those sessions.                                         *)
LEMMA CohortKeeps ==
    ASSUME IndInv, job.phase = "idle",
           NEW cohort, cohort.sessions \subseteq Checkpoints,
           cohort.decisions \subseteq Identities, cohort.horizon \in Horizons,
           BeginCohort(cohort)
    PROVE  IndInv'
<1> DEFINE S == cohort.sessions
           D == cohort.decisions
           h == cohort.horizon
           Named(k, x) == {y.event : y \in {y \in D : y.session = k.id
                                                      /\ Market(y.event) = Market(x.event)}}
           Group(k, x) == [market |-> Market(x.event), from |-> k.first, through |-> k.last,
                           last |-> k.last, named |-> Named(k, x)]
           Todo == UNION {{Group(k, x) : x \in {x \in D : x.session = k.id}} : k \in S}
<1>1. Beside /\ labels' = labels
  BY DEF BeginCohort, database, Beside
<1>2. Types /\ Saying /\ h \in Horizons
  BY DEF IndInv
<1>3. job' = [phase |-> "replay", horizons |-> {h}, window |-> {},
              counted |-> {x.event : x \in D}, todo |-> Todo, prepared |-> {}]
  BY DEF BeginCohort, Idle
<1>4. ASSUME NEW k \in S
      PROVE  /\ k.id \in 1..Len(sessions) /\ Closed(k.id)
             /\ k.first = sessions[k.id].first /\ k.last = sessions[k.id].last
             /\ k.first \in Nat /\ k.last \in Nat
  <2>1. k.id \in 1..Len(sessions)
    BY DEF Checkpoints
  <2>2. CheckpointHolds(k)
    BY DEF BeginCohort
  <2>3. Closed(k.id) /\ sessions[k.id] = [first |-> k.first, last |-> k.last]
    BY <2>2 DEF CheckpointHolds, Usable
  <2>4. sessions[k.id].first \in Nat /\ sessions[k.id].last \in Nat
    BY <1>2, <2>1, ObservedTypes DEF Types, ObservedOK
  <2> QED BY <2>1, <2>3, <2>4
<1>5. ASSUME NEW x \in D
      PROVE  /\ x.event \in Events
             /\ {r.id : r \in {r \in S : r.first <= journal[x.event].at
                                         /\ journal[x.event].at <= r.last}} = {x.session}
  <2>1. x.event \in Events
    BY DEF Identities
  <2>2. OneSessionEncloses(cohort, x)
    BY DEF BeginCohort
  <2> QED BY <2>1, <2>2 DEF OneSessionEncloses
<1>6. ASSUME NEW x \in D
      PROVE  \E r \in S : r.id = x.session /\ r.first <= journal[x.event].at
                          /\ journal[x.event].at <= r.last
  BY <1>5
<1>7. ASSUME NEW k \in S, NEW x \in D, x.session = k.id
      PROVE  k.first <= journal[x.event].at /\ journal[x.event].at <= k.last
  <2>1. PICK r \in S : r.id = x.session /\ r.first <= journal[x.event].at
                       /\ journal[x.event].at <= r.last
    BY <1>6
  <2>2. r.first = k.first /\ r.last = k.last
    BY <1>4, <1>7, <2>1
  <2> QED BY <2>1, <2>2
<1> HIDE DEF S, D, h
<1>8. ASSUME NEW k \in S, NEW x \in D, x.session = k.id
      PROVE  /\ Group(k, x) \in GroupRows /\ Enclosed(Group(k, x))
             /\ Named(k, x) \subseteq Rows(Group(k, x)) /\ x.event \in Named(k, x)
  <2>1. x.event \in Named(k, x)
    BY <1>8
  <2>2. Market(x.event) \in Markets
    <3>1. journal[x.event].trade \in Trades
      BY <1>2, <1>5, ObservedTypes DEF Types, ObservedOK, Events
    <3> QED BY <3>1 DEF Market, Markets
  <2>3. Named(k, x) \subseteq Nat
    BY <1>5 DEF Events
  <2>4. Group(k, x) \in GroupRows
    BY <1>4, <2>2, <2>3 DEF GroupRows
  <2>5. Enclosed(Group(k, x))
    BY <1>4 DEF Enclosed
  <2>6. ASSUME NEW y \in D, y.session = k.id, Market(y.event) = Market(x.event)
        PROVE  y.event \in Rows(Group(k, x))
    BY <1>5, <1>7, <2>6 DEF Rows, InWindow
  <2> QED BY <2>1, <2>4, <2>5, <2>6
<1>9. ASSUME NEW g \in Todo
      PROVE  \E k \in S, x \in D : x.session = k.id /\ g = Group(k, x)
  OBVIOUS
<1>10. Types'
  <2>1. Todo \subseteq GroupRows
    BY <1>8, <1>9
  <2>2. {x.event : x \in D} \subseteq Nat
    BY <1>5 DEF Events
  <2> HIDE DEF Todo
  <2>3. job' \in Jobs
    BY <1>2, <1>3, <2>1, <2>2 DEF Jobs
  <2> QED BY <1>1, <1>2, <1>3, <2>3, BesideKeeps DEF Types
<1>11. Windows' /\ Groups'
  <2>1. ASSUME NEW g \in Todo PROVE Enclosed(g) /\ g.named \subseteq Rows(g)
    BY <1>8, <1>9
  <2> HIDE DEF Todo
  <2> QED BY <1>1, <1>3, <2>1, BesideKeeps DEF Windows, Groups
<1>12. Apart'
  <2>1. ASSUME NEW g \in Todo, NEW o \in Todo, g.market = o.market, g # o
        PROVE  g.named # {} /\ o.named # {} /\ g.named \intersect o.named = {}
    <3>1. PICK k \in S, x \in D : x.session = k.id /\ g = Group(k, x)
      BY <1>9
    <3>2. PICK l \in S, z \in D : z.session = l.id /\ o = Group(l, z)
      BY <1>9
    <3>3. g.named = Named(k, x) /\ o.named = Named(l, z) /\ Market(x.event) = Market(z.event)
      BY <2>1, <3>1, <3>2
    <3>4. ASSUME k.id = l.id PROVE FALSE
      <4>1. k.first = l.first /\ k.last = l.last
        BY <1>4, <3>4
      <4>2. Named(k, x) = Named(l, z)
        BY <3>3, <3>4
      <4> QED BY <2>1, <3>1, <3>2, <3>3, <4>1, <4>2
    <3>5. ASSUME NEW n \in Named(k, x), n \in Named(l, z) PROVE FALSE
      <4>1. PICK y \in D : y.session = k.id /\ y.event = n
        BY <3>5
      <4>2. PICK v \in D : v.session = l.id /\ v.event = n
        BY <3>5
      <4>3. {y.session} = {v.session}
        BY <1>5, <4>1, <4>2
      <4> QED BY <3>4, <4>1, <4>2, <4>3
    <3>6. x.event \in Named(k, x) /\ z.event \in Named(l, z)
      BY <1>8, <3>1, <3>2
    <3> QED BY <3>3, <3>5, <3>6
  <2> HIDE DEF Todo
  <2> QED BY <1>3, <2>1 DEF Apart
<1>13. Whole'
  <2>1. ASSUME NEW x \in D PROVE \E g \in Todo : x.event \in Decisions(g)
    <3>1. PICK k \in S : k.id = x.session
      BY <1>6
    <3>2. Group(k, x) \in Todo
      <4> HIDE DEF Group
      <4> QED BY <3>1
    <3>3. x.event \in Named(k, x)
      BY <1>8, <3>1
    <3>4. x.event \in Decisions(Group(k, x))
      BY <3>3 DEF Decisions
    <3> QED BY <3>2, <3>4
  <2> HIDE DEF Todo
  <2>2. job'.phase = "replay" /\ job'.todo = Todo /\ job'.counted = {x.event : x \in D}
    BY <1>3
  <2> QED BY <1>1, <2>1, <2>2, BesideKeeps DEF Whole
<1>14. Saying'
  <2>1. job'.prepared = {}
    BY <1>3
  <2> QED BY <1>1, <1>2, <2>1, BesideKeeps
         DEF Saying, AllSound, Unique, OnePerKey, SameKey, Later
<1> QED BY <1>10, <1>11, <1>12, <1>13, <1>14 DEF IndInv, Reading

\* What a replay says of a decision is sound: the rows of its market in
\* the session are all that followed.
LEMMA ReplaySaysWhatFollowed ==
    ASSUME Types, Reading, NEW g \in job.todo, NEW n \in Decisions(g), NEW h \in job.horizons
    PROVE  LET l == Label(n, h, Rows(g), g.last)
           IN  /\ l \in LabelRows /\ Sound(l)
               /\ l.decision = n /\ l.horizon = h
               /\ l.complete => l.path = Followers(l)
<1> DEFINE l == Label(n, h, Rows(g), g.last)
<1>1. g \in GroupRows /\ h \in Horizons /\ Enclosed(g) /\ g.named \subseteq Rows(g)
  BY DEF Types, Jobs, Reading, Groups
<1>2. PICK s \in 1..Len(sessions) : /\ Closed(s) /\ sessions[s].first <= g.from
                                    /\ g.through <= g.last /\ g.last = sessions[s].last
  BY <1>1 DEF Enclosed
<1>3. n \in Rows(g)
  BY <1>1 DEF Decisions
<1>4. /\ n \in Events /\ Market(n) = g.market
      /\ g.from <= journal[n].at /\ journal[n].at <= g.last
  BY <1>3 DEF Rows, InWindow
<1>5. SessionsOK /\ JournalOK
  BY DEF Types, ObservedOK
<1>6. /\ journal[n].at \in Nat /\ h \in Nat /\ g.from \in Nat /\ g.last \in Nat
      /\ sessions[s].first \in Nat
  BY <1>1, <1>4, <1>5, ObservedTypes DEF GroupRows, Events
<1>7. /\ l.decision = n /\ l.horizon = h /\ l.through = g.last
      /\ l.complete = (journal[n].at + h <= g.last)
      /\ l.path = IF journal[n].at + h <= g.last THEN {m \in Rows(g) : Follows(n, m, h)} ELSE {}
      /\ l \in [decision : {n}, horizon : {h}, through : {g.last},
                complete : BOOLEAN, path : {l.path}]
  BY DEF Label
<1> HIDE DEF l
<1>8. l \in LabelRows
  <2>1. l.path \subseteq Nat
    BY <1>7 DEF Rows, Events
  <2>2. n \in Nat
    BY <1>4 DEF Events
  <2> QED BY <1>6, <1>7, <2>1, <2>2 DEF LabelRows
<1>9. ASSUME l.complete PROVE l.path = Followers(l)
  <2>1. journal[n].at + h <= g.last /\ l.path = {m \in Rows(g) : Follows(n, m, h)}
    BY <1>7, <1>9
  <2>2. ASSUME NEW m \in Events, Market(m) = Market(n), Follows(n, m, h) PROVE m \in Rows(g)
    <3>1. journal[m].at \in Nat
      BY <1>5, ObservedTypes DEF Events
    <3>2. g.from <= journal[m].at /\ journal[m].at <= g.last
      BY SMTT(30), <1>4, <1>6, <2>1, <2>2, <3>1 DEF Follows
    <3> QED BY <1>4, <2>2, <3>2 DEF Rows, InWindow
  <2>3. \A m \in Rows(g) : m \in Events /\ Market(m) = Market(n)
    BY <1>4 DEF Rows
  <2>4. Followers(l) = {m \in Events : Market(m) = Market(n) /\ Follows(n, m, h)}
    BY <1>7 DEF Followers
  <2> QED BY <2>1, <2>2, <2>3, <2>4
<1>10. Within(s, journal[n].at)
  BY <1>2, <1>4, <1>6 DEF Within
<1>11. Sound(l)
  BY <1>1, <1>2, <1>4, <1>7, <1>9, <1>10 DEF Sound
<1> QED BY <1>7, <1>8, <1>9, <1>11 DEF l

\* A replayed market is labelled once, for every decision it has.
LEMMA ReplayKeeps ==
    ASSUME IndInv, NEW g \in job.todo, Replay(g)
    PROVE  IndInv'
<1>1. Beside /\ labels' = labels /\ job.phase = "replay"
  BY DEF Replay, database, Beside
<1>2. Types /\ Reading /\ Saying /\ job \in Jobs
  BY DEF IndInv, Types
<1>3. CASE job' = Idle
  BY <1>1, <1>2, <1>3, IdleKeeps DEF Types, Saying, AllSound, Unique
<1> DEFINE New == {Label(n, h, Rows(g), g.last) : n \in Decisions(g), h \in job.horizons}
<1>4. CASE job' = [job EXCEPT !.todo = @ \ {g}, !.prepared = @ \union New]
  <2>1. /\ job'.phase = "replay" /\ job'.window = job.window /\ job'.counted = job.counted
        /\ job'.todo = job.todo \ {g} /\ job'.prepared = job.prepared \union New
        /\ job'.horizons = job.horizons
    BY <1>1, <1>2, <1>4 DEF Jobs
  <2>2. ASSUME NEW l \in New
        PROVE  /\ l \in LabelRows /\ Sound(l) /\ l.decision \in Decisions(g)
               /\ l.horizon \in job.horizons
               /\ l = Label(l.decision, l.horizon, Rows(g), g.last)
               /\ l.complete => l.path = Followers(l)
    <3>1. PICK n \in Decisions(g), h \in job.horizons : l = Label(n, h, Rows(g), g.last)
      OBVIOUS
    <3> QED BY <1>2, <3>1, ReplaySaysWhatFollowed
  <2>3. ASSUME NEW n \in Decisions(g), NEW h \in job.horizons
        PROVE  \E l \in New : l.decision = n /\ l.horizon = h
    <3>1. Label(n, h, Rows(g), g.last) \in New
      OBVIOUS
    <3> QED BY <1>2, <3>1, ReplaySaysWhatFollowed
  <2>4. \A n \in Decisions(g) : n \in Events /\ ~Not(g, n)
    BY <1>2 DEF Reading, Groups, Decisions, Rows, Not
  <2> HIDE DEF New
  <2>5. Types'
    <3>1. job' \in Jobs
      BY <1>2, <1>4, <2>2 DEF Jobs
    <3> QED BY <1>1, <1>2, <2>1, <3>1, BesideKeeps DEF Types
  <2>6. Windows' /\ Groups'
    BY <1>1, <1>2, <2>1, BesideKeeps DEF Reading, Windows, Groups
  <2>7. Apart'
    <3>1. ASSUME NEW k \in job.todo, k # g, NEW l \in New PROVE Not(k, l.decision)
      <4>1. l.decision \in Decisions(g)
        BY <2>2
      <4>2. \/ g.market # k.market
            \/ g.named # {} /\ k.named # {} /\ g.named \intersect k.named = {}
        BY <1>2, <3>1 DEF Reading, Apart
      <4>3. Market(l.decision) = g.market /\ (g.named # {} => l.decision \in g.named)
        BY <2>4, <4>1 DEF Not
      <4> QED BY <4>2, <4>3 DEF Not
    <3>2. \A k \in job'.todo : \A p \in job'.prepared : Not(k, p.decision)
      BY <1>2, <2>1, <3>1 DEF Reading, Apart
    <3> QED BY <1>1, <1>2, <2>1, <3>2, BesideKeeps DEF Reading, Apart
  <2>8. Whole'
    <3>1. ASSUME NEW n \in job.counted
          PROVE  Done(n)' \/ \E k \in job'.todo : n \in Decisions(k)'
      <4>1. CASE Done(n)
        BY <2>1, <4>1 DEF Done
      <4>2. CASE \E k \in job.todo : k # g /\ n \in Decisions(k)
        BY <1>1, <2>1, <4>2, BesideKeeps
      <4>3. CASE n \in Decisions(g)
        BY <2>1, <2>3, <4>3 DEF Done
      <4> QED BY <1>1, <1>2, <4>1, <4>2, <4>3 DEF Reading, Whole
    <3> QED BY <2>1, <3>1 DEF Whole
  <2>9. AllSound'
    BY <1>1, <1>2, <2>1, <2>2, BesideKeeps DEF Saying, AllSound
  <2>10. Unique'
    <3>1. ASSUME NEW l \in New, NEW k \in New, SameKey(l, k) PROVE l = k
      BY <2>2, <3>1 DEF SameKey
    <3>2. ASSUME NEW l \in New, NEW p \in job.prepared, l.decision = p.decision PROVE FALSE
      BY <1>2, <2>2, <2>4, <3>2 DEF Reading, Apart
    <3> QED BY <1>1, <1>2, <2>1, <3>1, <3>2 DEF Saying, Unique, OnePerKey, SameKey
  <2>11. Later'
    <3>1. ASSUME NEW l \in labels, NEW p \in New, SameKey(l, p), l.through = p.through
          PROVE  l.path \subseteq p.path
      <4>1. Sound(l) /\ Sound(p)
        BY <1>2, <2>2 DEF Saying, AllSound
      <4>2. l.complete <=> p.complete
        BY <3>1, <4>1 DEF Sound, SameKey
      <4>3. Followers(l) = Followers(p)
        BY <3>1 DEF Followers, SameKey
      <4> QED BY <2>2, <4>1, <4>2, <4>3 DEF Sound
    <3> QED BY <1>1, <1>2, <2>1, <3>1 DEF Saying, Later, SameKey
  <2> QED BY <2>5, <2>6, <2>7, <2>8, <2>9, <2>10, <2>11 DEF IndInv, Reading, Saying
<1> QED BY <1>3, <1>4 DEF Replay

\* What a command writes, if it writes.
LEMMA WriteWrites ==
    ASSUME IndInv, Write
    PROVE  /\ Beside /\ job.phase = "replay" /\ job.todo = {}
           /\ \/ labels' = labels /\ (job' = Idle \/ job' = [job EXCEPT !.phase = "conflict"])
              \/ /\ labels' = labels \union job.prepared /\ job' = Idle
                 /\ \A l \in labels, p \in job.prepared : SameKey(l, p) => l = p
<1>1. Beside /\ job.phase = "replay" /\ job.todo = {}
  BY DEF Write, database, Beside
<1>2. CASE Conflicting(job.prepared)
  BY <1>1, <1>2 DEF Write, Written
<1>3. CASE ~Conflicting(job.prepared)
  <2>1. \A l \in labels, p \in job.prepared : SameKey(l, p) => l = p
    BY <1>3 DEF Conflicting
  <2> QED BY <1>1, <1>3, <2>1 DEF Write, Written
<1> QED BY <1>2, <1>3

\* What is written repeats what is stored, or is about new decisions.
LEMMA WriteKeeps ==
    ASSUME IndInv, Write
    PROVE  IndInv'
<1>1. Beside /\ Types /\ Reading /\ Saying /\ job \in Jobs /\ job.todo = {}
  BY WriteWrites DEF IndInv, Types
<1>2. CASE labels' = labels /\ job' = Idle
  BY <1>1, <1>2, IdleKeeps DEF Types, Saying, AllSound, Unique
<1>3. CASE labels' = labels /\ job' = [job EXCEPT !.phase = "conflict"]
  <2>1. /\ job'.phase = "conflict" /\ job'.window = job.window /\ job'.counted = job.counted
        /\ job'.todo = job.todo /\ job'.prepared = job.prepared
        /\ job'.horizons = job.horizons /\ job' \in Jobs
    BY <1>1, <1>3 DEF Jobs
  <2>2. Types'
    BY <1>1, <1>3, <2>1, BesideKeeps DEF Types
  <2>3. Reading'
    BY <1>1, <2>1, BesideKeeps DEF Reading, Windows, Groups, Apart, Whole
  <2>4. Saying'
    BY <1>1, <1>3, <2>1, BesideKeeps
       DEF Saying, AllSound, Unique, OnePerKey, SameKey, Later
  <2> QED BY <2>2, <2>3, <2>4 DEF IndInv
<1>4. CASE /\ labels' = labels \union job.prepared /\ job' = Idle
           /\ \A l \in labels, p \in job.prepared : SameKey(l, p) => l = p
  <2>1. labels' \subseteq LabelRows
    BY <1>1, <1>4 DEF Types, Jobs
  <2>2. \A l \in labels' : Sound(l)
    BY <1>1, <1>4 DEF Saying, AllSound
  <2>3. OnePerKey(labels')
    BY <1>1, <1>4 DEF Saying, Unique, OnePerKey, SameKey
  <2> QED BY <1>1, <1>4, <2>1, <2>2, <2>3, IdleKeeps
<1> QED BY <1>2, <1>3, <1>4, WriteWrites
-----------------------------------------------------------------------------
\* The invariant is inductive.
LEMMA Inductive == Spec => []IndInv
<1>1. Init => IndInv
  <2> SUFFICES ASSUME Init PROVE IndInv
    OBVIOUS
  <2>1. SessionsOK /\ JournalOK
    <3>1. sessions \in Seq(Spans) /\ Len(sessions) = 0
          /\ journal \in Seq(EventRows) /\ Len(journal) = 0
      BY EmptySeq DEF Init
    <3> QED BY <3>1 DEF SessionsOK, JournalOK, Events
  <2>2. Types
    BY <2>1 DEF Init, Types, ObservedOK, Idle, Jobs
  <2>3. Reading
    BY DEF Init, Reading, Windows, Groups, Apart, Whole, Idle
  <2>4. Saying
    BY DEF Init, Saying, AllSound, Unique, OnePerKey, Later, Idle
  <2> QED BY <2>2, <2>3, <2>4 DEF IndInv
<1>2. IndInv /\ [Next]_vars => IndInv'
  <2> SUFFICES ASSUME IndInv, [Next]_vars PROVE IndInv'
    OBVIOUS
  <2>1. CASE Observer
    BY <2>1, ObserverKeeps
  <2>2. ASSUME NEW s \in 1..Len(sessions), NEW from \in 1..MaxTime, NEW through \in 1..MaxTime,
               Count(s, from, through)
        PROVE  IndInv'
    BY <2>2, CountKeeps
  <2>3. CASE ListMarkets
    BY <2>3, ListKeeps
  <2>4. CASE Cohort
    <3>1. PICK c \in Checkpoints, e \in Checkpoints, d \in Identities, f \in Identities,
               h \in Horizons :
            BeginCohort([sessions |-> {c, e}, decisions |-> {d, f}, horizon |-> h])
      BY <2>4 DEF Cohort
    <3> DEFINE co == [sessions |-> {c, e}, decisions |-> {d, f}, horizon |-> h]
    <3>2. co.sessions \subseteq Checkpoints /\ co.decisions \subseteq Identities
          /\ co.horizon \in Horizons /\ BeginCohort(co) /\ job.phase = "idle"
      BY <2>4, <3>1 DEF Cohort
    <3> HIDE DEF co
    <3> QED BY <3>2, CohortKeeps
  <2>5. ASSUME NEW g \in job.todo, Replay(g) PROVE IndInv'
    BY <2>5, ReplayKeeps
  <2>6. CASE Write
    BY <2>6, WriteKeeps
  <2>7. CASE End
    <3>1. Beside /\ labels' = labels /\ job' = Idle
      BY <2>7 DEF End, database, Beside
    <3> QED BY <3>1, IdleKeeps DEF IndInv, Types, Saying, AllSound, Unique
  <2>8. CASE UNCHANGED vars
    <3>1. Beside /\ labels' = labels /\ job' = job
      BY <2>8 DEF vars, database, Beside
    <3>2. Types'
      BY <3>1, BesideKeeps DEF IndInv, Types
    <3>3. Reading'
      BY <3>1, BesideKeeps DEF IndInv, Reading, Windows, Groups, Apart, Whole, Done
    <3>4. Saying'
      BY <3>1, BesideKeeps DEF IndInv, Saying, AllSound, Unique, OnePerKey, SameKey, Later
    <3> QED BY <3>2, <3>3, <3>4 DEF IndInv
  <2> QED BY <2>1, <2>2, <2>3, <2>4, <2>5, <2>6, <2>7, <2>8 DEF Next, Command
<1> QED BY <1>1, <1>2, PTL DEF Spec

(* A label speaks for a whole horizon inside one closed session, or says   *)
(* nothing; the commands never take a gap in the coverage for silence.     *)
THEOREM LabelsAreSound == Spec => []LabelsSound
<1>1. IndInv => LabelsSound
  <2> SUFFICES ASSUME IndInv PROVE LabelsSound
    OBVIOUS
  <2>1. ObservedOK /\ SessionsOK /\ JournalOK /\ job \in Jobs
    BY DEF IndInv, Types, ObservedOK
  <2>2. \A l \in labels : Sound(l)
    BY DEF IndInv, Saying, AllSound
  <2>3. LabelsTypeOK
    <3>1. \A n \in Events : journal[n].trade \in Trades
      BY <2>1, ObservedTypes DEF Events
    <3> QED BY <2>1, <2>2, <3>1
            DEF LabelsTypeOK, ObservedOK, SessionsOK, JournalOK, Sound, Jobs
  <2>4. LabelsKeepToCoverage
    BY <2>2 DEF LabelsKeepToCoverage, Sound, IndInv, Saying, Unique, OnePerKey
  <2> QED BY <2>3, <2>4 DEF LabelsSound
<1> QED BY <1>1, Inductive, PTL

(* What a command writes is every horizon of every event that it counted.  *)
THEOREM PopulationsAreWhole == Spec => PopulationIsWhole
<1>1. ASSUME IndInv, Next, labels' # labels
      PROVE  \A n \in job.counted, h \in job.horizons :
                 \E l \in labels' \intersect job.prepared : l.decision = n /\ l.horizon = h
  <2>1. Write
    <3>1. ~Observer
      BY <1>1, ObserverGrows DEF IndInv, Types
    <3>2. Cohort => labels' = labels
      BY DEF Cohort, BeginCohort
    <3>3. \A s, from, through : Count(s, from, through) => labels' = labels
      BY DEF Count
    <3>4. \A g : Replay(g) => labels' = labels
      BY DEF Replay
    <3>5. ListMarkets \/ End => labels' = labels
      BY DEF ListMarkets, End
    <3> QED BY <1>1, <3>1, <3>2, <3>3, <3>4, <3>5 DEF Next, Command
  <2>2. job.phase = "replay" /\ job.todo = {} /\ labels' = labels \union job.prepared
    BY <1>1, <2>1, WriteWrites
  <2>3. \A n \in job.counted : Done(n)
    BY <1>1, <2>2 DEF IndInv, Reading, Whole
  <2> QED BY <2>2, <2>3 DEF Done
<1> QED BY <1>1, Inductive, PTL DEF Spec, PopulationIsWhole, vars

(* Commands contradict each other only about a decision of two sessions,   *)
(* or where an event was committed into a session that had closed.         *)
THEOREM ConflictsHaveCauses == Spec => []ConflictsAreExplained
<1>1. IndInv => ConflictsAreExplained
  <2> SUFFICES ASSUME IndInv, NEW l \in labels, NEW p \in job.prepared, SameKey(l, p), l # p
               PROVE  \/ l.through # p.through
                         /\ \E s, r \in 1..Len(sessions) :
                               /\ s # r /\ Within(s, journal[l.decision].at)
                               /\ Within(r, journal[l.decision].at)
                      \/ l.through = p.through /\ p.path \ l.path # {}
                         /\ l.path \subseteq p.path /\ p.path \ l.path \subseteq late
    BY DEF ConflictsAreExplained
  <2>1. Sound(l) /\ Sound(p) /\ l \in LabelRows /\ p \in LabelRows
    BY DEF IndInv, Saying, AllSound, Types, Jobs
  <2>2. CASE l.through # p.through
    <3>1. PICK s \in 1..Len(sessions) : Within(s, journal[l.decision].at)
                                        /\ l.through = sessions[s].last
      BY <2>1 DEF Sound
    <3>2. PICK r \in 1..Len(sessions) : Within(r, journal[p.decision].at)
                                        /\ p.through = sessions[r].last
      BY <2>1 DEF Sound
    <3> QED BY <2>2, <3>1, <3>2 DEF SameKey
  <2>3. CASE l.through = p.through
    <3>1. l.path \subseteq p.path
      BY <2>3 DEF IndInv, Saying, Later
    <3>2. (l.complete <=> p.complete) /\ Followers(l) = Followers(p)
      BY <2>1, <2>3 DEF Sound, SameKey, Followers
    <3>3. l.path # p.path
      BY <2>1, <2>3, <3>2 DEF LabelRows, SameKey
    <3>4. p.path \ l.path \subseteq late
      BY <2>1, <3>2 DEF Sound
    <3> QED BY <2>3, <3>1, <3>3, <3>4
  <2> QED BY <2>2, <2>3
<1> QED BY <1>1, Inductive, PTL
=============================================================================
