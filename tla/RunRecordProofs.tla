---------------------------- MODULE RunRecordProofs ----------------------------
(***************************************************************************)
(* Proofs about RunRecord, for any tool calls, any number of concurrent    *)
(* writers, any number of retries and any length of the text.              *)
(***************************************************************************)
EXTENDS RunRecord, FiniteSetTheorems, SequenceTheorems, TLAPS

Row == [text : Seq(Nat), finalized : BOOLEAN]
Call == [state : {"none", "running", "done", "denied"}, args : Nat, result : BOOLEAN]
Operation ==
    [stage : {"none", "read", "insert", "write"}, seq : Nat, tries : Nat, row : Nat \cup {None}]
TextJobs == {"text", "close"}

Types ==
    /\ run \in {"idle", "started", "open", "closing", "over"}
    /\ view \in [shown : BOOLEAN, text : Seq(Nat), finalized : BOOLEAN, calls : [Calls -> Call]]
    /\ persister \in {"ready", "busy", "over", "dead"}
    /\ op \in [Writers -> Operation]
    /\ timer \in BOOLEAN /\ holed \in BOOLEAN

Texts ==
    /\ buffer \in Seq(Nat)
    /\ chunk \in [Tasks -> Seq(Nat)]
    /\ rows \in Seq(Row)
    /\ rowOf \in (1..Len(rows)) \cup {None}

\* A number that was read is at most the next one, however stale it is: it was taken
\* meanwhile, or it is free and the next one still.
NumbersInv ==
    \E n \in Nat :
        /\ numbers = 1..n
        /\ \A w \in Writers : op[w].stage = "insert" => op[w].seq \in 1..n + 1

\* The persister has an operation only while it is busy with a frame, and is over only
\* after the run.
BusyInv ==
    /\ persister = "over" => run = "over"
    /\ op["persister"].stage # "none" => persister = "busy"
    /\ persister = "busy" => job[1] \in TextJobs \cup Kinds

\* An operation that inserts began without a row: there are two rows at most.
Inserting(w) == IF op[w].stage \in {"read", "insert"} THEN 1 ELSE 0

TwoRows ==
    /\ Len(rows) + Inserting("persister") + Inserting("timer") <= 2
    /\ rowOf # None => rowOf = Len(rows)
    /\ rowOf = None /\ rows # <<>> =>
        /\ persister = "dead" /\ ~timer
        /\ \A w \in Tasks : op[w].stage = "none"
    /\ op["timer"].stage # "none" => timer

\* Deltas are in one place only, and go to a row that no text follows.
OneChunk ==
    /\ chunk["persister"] # <<>> =>
        /\ op["persister"].stage # "none" /\ job[1] \in TextJobs
        /\ buffer = <<>>
    /\ chunk["timer"] # <<>> <=> op["timer"].stage # "none"
    /\ op["timer"].stage # "none" => ~(persister = "busy" /\ job[1] \in TextJobs)
    /\ \A w \in Tasks : chunk[w] # <<>> /\ op[w].stage = "write" =>
        /\ op[w].row \in 1..Len(rows)
        /\ \A i \in op[w].row + 1..Len(rows) : rows[i].text = <<>>

Text(s) == FoldLeft(LAMBDA text, row : text \o row.text, <<>>, s)

\* The deltas that were let out and are not stored.
Pending == chunk["persister"] \o chunk["timer"] \o buffer

\* What is stored and what is pending is what was published, while the persister
\* listens, and the beginning of it afterwards.
TextInv ==
    ~holed =>
        \E rest \in Seq(Nat) :
            /\ view.text = Text(rows) \o Pending \o rest
            /\ persister # "dead" => rest = <<>>

RecordInv == Types /\ Texts /\ NumbersInv /\ BusyInv /\ TwoRows /\ OneChunk /\ TextInv

(* What a reload shows needs more. *)

\* Buffered deltas have a timer that will flush them.
Waits ==
    /\ buffer # <<>> => timer
    /\ op["timer"].stage # "none" => buffer = <<>>

\* What the card of a call shows, by the frames that were let out.
CardsInv ==
    /\ emitted \in [Calls -> SUBSET Kinds]
    /\ \A t \in Calls \ early :
        LET card == view.calls[t]
        IN  /\ "call" \notin emitted[t] => card = Absent
            /\ "call" \in emitted[t] => card.state # "none"
            /\ "end" \notin emitted[t] => card.state # "done"
            /\ "result" \notin emitted[t] => ~card.result

\* The rows are the cards, but for the frame the persister is busy with, and for the
\* calls that were denied before their start.
CallsInv ==
    /\ DOMAIN calls = Calls
    /\ persister # "dead" =>
        \A t \in Calls \ early :
            view.calls[t] = IF persister = "busy" /\ job[1] \in Kinds /\ job[2] = t
                            THEN Updated(calls[t], job[1])
                            ELSE calls[t]

\* Once the bubble is closed only the persister writes, into the row it finalizes.
ClosedInv ==
    /\ view.finalized => run \in {"closing", "over"}
    /\ persister # "dead" /\ view.finalized => ~timer /\ (persister = "busy" => job[1] = "close")
    /\ persister = "busy" /\ job[1] = "close" =>
        /\ view.finalized
        /\ op["persister"].stage = "write" => op["persister"].row = rowOf
    /\ persister # "dead" /\ ~(persister = "busy" /\ job[1] = "close") /\ Len(rows) = 1 =>
        rows[1].finalized = view.finalized

-----------------------------------------------------------------------------
(* The text of at most two rows: the fold, unfolded. *)

\* One step of the fold's recursion, for a candidate f.
Step(s, f) ==
    [S \in SUBSET (DOMAIN s) |-> IF S = {} THEN <<>> ELSE f[S \ {Max(S)}] \o s[Max(S)].text]

LEMMA Unfold == ASSUME NEW s PROVE Text(s) = (CHOOSE f : f = Step(s, f))[DOMAIN s]
  BY DEF Text, FoldLeft, MapThenFoldSet, Step

LEMMA FoldUpToTwo ==
    ASSUME NEW s \in Seq(Row), Len(s) <= 2
    PROVE  Text(s) = IF Len(s) = 0 THEN <<>> ELSE IF Len(s) = 1 THEN s[1].text ELSE s[1].text \o s[2].text
  <1> DEFINE value(S) == IF S = {} THEN <<>>
                         ELSE IF S = {1, 2} THEN s[1].text \o s[2].text ELSE s[Max(S)].text
             g == [S \in SUBSET (DOMAIN s) |-> value(S)]
  <1>1. Max({1}) = 1 /\ Max({2}) = 2 /\ Max({1, 2}) = 2
    BY DEF Max
  <1>2. DOMAIN s = 1..Len(s) /\ (Len(s) = 0 \/ Len(s) = 1 \/ Len(s) = 2)
    <2>1. Len(s) \in Nat /\ DOMAIN s = 1..Len(s)
      OBVIOUS
    <2> QED
      BY <2>1
  <1>3. SUBSET (DOMAIN s) = IF Len(s) = 0 THEN {{}} ELSE IF Len(s) = 1 THEN {{}, {1}} ELSE {{}, {1}, {2}, {1, 2}}
    <2>1. CASE Len(s) = 0
      BY <1>2, <2>1
    <2>2. CASE Len(s) = 1
      <3>1. DOMAIN s = {1}
        BY <1>2, <2>2
      <3> QED
        BY <2>2, <3>1
    <2>3. CASE Len(s) = 2
      <3>1. DOMAIN s = {1, 2}
        BY <1>2, <2>3
      <3>2. ASSUME NEW S \in SUBSET {1, 2} PROVE S \in {{}, {1}, {2}, {1, 2}}
        OBVIOUS
      <3> QED
        BY <2>3, <3>1, <3>2
    <2> QED
      BY <1>2, <2>1, <2>2, <2>3
  <1>4. \A i \in DOMAIN s : s[i].text \in Seq(Nat) /\ <<>> \o s[i].text = s[i].text
    <2> TAKE i \in DOMAIN s
    <2>1. s[i] \in Row
      OBVIOUS
    <2>2. s[i].text \in Seq(Nat)
      BY <2>1 DEF Row
    <2> QED
      BY <2>2
  <1>5. ASSUME NEW f, f = Step(s, f), NEW S \in SUBSET (DOMAIN s) PROVE f[S] = value(S)
    <2>1. f[S] = IF S = {} THEN <<>> ELSE f[S \ {Max(S)}] \o s[Max(S)].text
      BY <1>5 DEF Step
    <2>2. f[{}] = <<>>
      BY <1>5 DEF Step
    <2>3. CASE S = {}
      BY <2>1, <2>3
    <2>4. CASE S = {1} \/ S = {2}
      <3>1. S \ {Max(S)} = {} /\ Max(S) \in S /\ S # {1, 2}
        BY <1>1, <2>4, 1 # 2
      <3> QED
        BY <1>4, <2>1, <2>2, <2>4, <3>1
    <2>5. CASE S = {1, 2}
      <3>1. S \ {Max(S)} = {1} /\ Max(S) = 2 /\ {1} \in SUBSET (DOMAIN s) /\ 1 \in DOMAIN s
        BY <1>1, <2>5
      <3>2. f[{1}] = f[{1} \ {Max({1})}] \o s[Max({1})].text
        BY <1>5, <3>1 DEF Step
      <3>3. {1} \ {Max({1})} = {}
        BY <1>1
      <3>4. f[{1}] = s[1].text
        BY <1>1, <1>4, <2>2, <3>1, <3>2, <3>3
      <3> QED
        BY <2>1, <2>5, <3>1, <3>4
    <2> QED
      BY <1>3, <2>3, <2>4, <2>5
  <1>6. g = Step(s, g)
    <2>1. ASSUME NEW S \in SUBSET (DOMAIN s), S # {} PROVE value(S) = g[S \ {Max(S)}] \o s[Max(S)].text
      <3>1. CASE S = {1} \/ S = {2}
        <4>1. S \ {Max(S)} = {} /\ Max(S) \in S /\ S # {1, 2}
          BY <1>1, <3>1, 1 # 2
        <4>2. g[{}] = <<>>
          OBVIOUS
        <4> QED
          BY <1>4, <2>1, <3>1, <4>1, <4>2
      <3>2. CASE S = {1, 2}
        <4>1. S \ {Max(S)} = {1} /\ Max(S) = 2 /\ {1} \in SUBSET (DOMAIN s)
          BY <1>1, <3>2
        <4>2. g[{1}] = s[1].text
          BY <1>1, <4>1
        <4> QED
          BY <2>1, <3>2, <4>1, <4>2
      <3> QED
        BY <1>3, <2>1, <3>1, <3>2
    <2> QED
      BY <2>1 DEF Step
  <1>7. Text(s) = value(DOMAIN s)
    <2> DEFINE f == CHOOSE f : f = Step(s, f)
    <2>1. f = Step(s, f)
      BY <1>6
    <2> QED
      BY <1>5, <2>1, Unfold
  <1>8. CASE Len(s) = 0
    BY <1>2, <1>7, <1>8
  <1>9. CASE Len(s) = 1
    <2>1. DOMAIN s = {1} /\ {1} # {1, 2}
      BY <1>2, <1>9
    <2> QED
      BY <1>1, <1>7, <1>9, <2>1
  <1>10. CASE Len(s) = 2
    <2>1. DOMAIN s = {1, 2} /\ {1, 2} # {}
      BY <1>2, <1>10
    <2>2. Text(s) = s[1].text \o s[2].text
      BY <1>7, <2>1
    <2> QED
      BY <1>10, <2>2
  <1> QED
    BY <1>2, <1>8, <1>9, <1>10

LEMMA UpToTwo ==
    /\ \A n \in Nat : n <= 2 => n = 0 \/ n = 1 \/ n = 2
    /\ \A n \in Nat : n = 0 \/ n = 1 \/ n = 2 => n <= 2
  OBVIOUS

LEMMA TextOf ==
    ASSUME NEW s \in Seq(Row)
    PROVE  /\ Len(s) = 0 => Text(s) = <<>>
           /\ Len(s) = 1 => Text(s) = s[1].text
           /\ Len(s) = 2 => Text(s) = s[1].text \o s[2].text
  <1> DEFINE n == Len(s)
  <1>1. n \in Nat
    OBVIOUS
  <1>2. n <= 2 =>
           Text(s) = IF n = 0 THEN <<>> ELSE IF n = 1 THEN s[1].text ELSE s[1].text \o s[2].text
    BY FoldUpToTwo
  <1>3. (n = 0 => Text(s) = <<>>) /\ (n = 1 => Text(s) = s[1].text) /\ (n = 2 => Text(s) = s[1].text \o s[2].text)
    <2> HIDE DEF n
    <2>1. n = 0 \/ n = 1 \/ n = 2 => n <= 2
      BY <1>1, UpToTwo
    <2>2. CASE n = 0
      BY <1>2, <2>1, <2>2
    <2>3. CASE n = 1
      BY <1>2, <2>1, <2>3
    <2>4. CASE n = 2
      <3>1. n # 0 /\ n # 1 /\ n <= 2
        BY <2>1, <2>4
      <3> QED
        BY <1>2, <2>4, <3>1, Zenon
    <2> QED
      BY <2>2, <2>3, <2>4
  <1> QED
    BY <1>3

LEMMA UpToOne == ASSUME NEW n \in Nat, n <= 1 PROVE (n = 0 \/ n = 1) /\ n <= 2
  OBVIOUS

LEMMA Associative ==
    ASSUME NEW s \in Seq(Nat), NEW t \in Seq(Nat), NEW u \in Seq(Nat)
    PROVE  (s \o t) \o u = s \o (t \o u)
  BY ConcatAssociative, SMTT(30)

LEMMA Concats ==
    ASSUME NEW s \in Seq(Nat), NEW t \in Seq(Nat)
    PROVE  /\ s \o t \in Seq(Nat)
           /\ s \o <<>> = s /\ <<>> \o s = s
  <1>1. s \o t \in Seq(Nat)
    BY ConcatProperties
  <1>2. s \o <<>> = s /\ <<>> \o s = s
    BY ConcatEmptySeq
  <1> QED
    BY <1>1, <1>2

LEMMA AppendConcat ==
    ASSUME NEW s \in Seq(Nat), NEW t \in Seq(Nat), NEW n \in Nat
    PROVE  Append(t, n) \in Seq(Nat) /\ Append(s \o t, n) = s \o Append(t, n)
  <1>9. s \o t \in Seq(Nat) /\ Append(t, n) \in Seq(Nat)
    BY Concats
  <1> DEFINE st == s \o t  one == <<n>>
  <1>1. one \in Seq(Nat) /\ Append(st, n) = st \o one /\ Append(t, n) = t \o one
    BY <1>9, AppendIsConcat
  <1> HIDE DEF one
  <1>2. st \o one = s \o (t \o one)
    BY <1>1, Associative
  <1> HIDE DEF st
  <1>3. Append(st, n) = s \o Append(t, n)
    BY <1>1, <1>2
  <1> QED
    BY <1>9, <1>3 DEF st

LEMMA TextTyped ==
    ASSUME NEW s \in Seq(Row), Len(s) <= 2 PROVE Text(s) \in Seq(Nat)
  <1>1. \A i \in 1..Len(s) : s[i].text \in Seq(Nat)
    <2> TAKE i \in 1..Len(s)
    <2>1. s[i] \in Row
      OBVIOUS
    <2> QED
      BY <2>1 DEF Row
  <1>2. <<>> \in Seq(Nat)
    OBVIOUS
  <1>3. Len(s) = 0 \/ Len(s) = 1 \/ Len(s) = 2
    <2>1. Len(s) \in Nat
      OBVIOUS
    <2> QED
      BY <2>1, UpToTwo
  <1>4. Text(s) = IF Len(s) = 0 THEN <<>> ELSE IF Len(s) = 1 THEN s[1].text ELSE s[1].text \o s[2].text
    BY <1>3, TextOf
  <1>5. CASE Len(s) = 2
    <2>1. Text(s) = s[1].text \o s[2].text /\ 1 \in 1..Len(s) /\ 2 \in 1..Len(s)
      BY <1>4, <1>5
    <2> QED
      BY <1>1, <2>1, ConcatProperties
  <1> QED
    BY <1>1, <1>2, <1>3, <1>4, <1>5

\* Rows with the same texts have the same text.
LEMMA SameTexts ==
    ASSUME NEW s \in Seq(Row), NEW r \in Seq(Row), Len(s) <= 2, Len(r) = Len(s),
           \A i \in 1..Len(s) : r[i].text = s[i].text
    PROVE  Text(r) = Text(s)
  <1>1. Len(s) = 0 \/ Len(s) = 1 \/ Len(s) = 2
    <2>1. Len(s) \in Nat
      OBVIOUS
    <2> QED
      BY <2>1, UpToTwo
  <1>2. /\ Text(s) = IF Len(s) = 0 THEN <<>> ELSE IF Len(s) = 1 THEN s[1].text ELSE s[1].text \o s[2].text
        /\ Text(r) = IF Len(s) = 0 THEN <<>> ELSE IF Len(s) = 1 THEN r[1].text ELSE r[1].text \o r[2].text
    BY <1>1, TextOf
  <1>3. /\ Len(s) = 1 => r[1].text = s[1].text
        /\ Len(s) = 2 => r[1].text = s[1].text /\ r[2].text = s[2].text
    OBVIOUS
  <1> QED
    BY <1>1, <1>2, <1>3

\* A new row has no text.
LEMMA RowAdded ==
    ASSUME NEW s \in Seq(Row), Len(s) <= 1, NEW r \in Row, r.text = <<>>
    PROVE  Append(s, r) \in Seq(Row) /\ Text(Append(s, r)) = Text(s)
  <1> DEFINE t == Append(s, r)
  <1>1. /\ t \in Seq(Row) /\ Len(t) = Len(s) + 1 /\ t[Len(s) + 1] = r
        /\ \A i \in 1..Len(s) : t[i] = s[i]
    BY AppendProperties
  <1> HIDE DEF t
  <1>2. Len(s) = 0 \/ Len(s) = 1
    <2>1. Len(s) \in Nat
      OBVIOUS
    <2> QED
      BY <2>1, UpToOne
  <1>3. CASE Len(s) = 0
    <2>1. Text(s) = <<>> /\ Len(t) = 1
      <3>1. Len(t) = 1
        BY <1>1, <1>3
      <3>2. Text(s) = <<>>
        BY <1>3, TextOf
      <3> QED
        BY <3>1, <3>2
    <2>2. Text(t) = t[1].text
      BY <1>1, <2>1, TextOf
    <2>3. t[1] = r
      BY <1>1, <1>3
    <2> QED
      BY <1>1, <2>1, <2>2, <2>3 DEF t
  <1>4. CASE Len(s) = 1
    <2>1. s[1].text \in Seq(Nat)
      <3>1. s[1] \in Row
        BY <1>4, SMTT(30)
      <3> QED
        BY <3>1 DEF Row
    <2>2. s[1].text \o <<>> = s[1].text
      BY <2>1, Concats
    <2>3. t[1] = s[1] /\ t[2] = r
      BY <1>1, <1>4
    <2>4. Text(t) = t[1].text \o t[2].text
      <3>1. Len(t) = 2
        BY <1>1, <1>4
      <3> QED
        BY <1>1, <3>1, TextOf
    <2>5. Text(s) = s[1].text
      BY <1>4, TextOf
    <2> QED
      BY <1>1, <2>2, <2>3, <2>4, <2>5 DEF t
  <1> QED
    BY <1>1, <1>2, <1>3, <1>4 DEF t

\* Deltas that are stored in a row that no text follows come at the end.
LEMMA TextStored ==
    ASSUME NEW s \in Seq(Row), Len(s) <= 2, NEW i \in 1..Len(s), NEW c \in Seq(Nat),
           \A j \in i + 1..Len(s) : s[j].text = <<>>,
           NEW t \in Seq(Row), Len(t) = Len(s), t[i].text = s[i].text \o c,
           \A j \in 1..Len(s) : j # i => t[j].text = s[j].text
    PROVE  Text(t) = Text(s) \o c
  <1>1. \A j \in 1..Len(s) : s[j] \in Row /\ s[j].text \in Seq(Nat)
    <2> TAKE j \in 1..Len(s)
    <2>1. s[j] \in Row
      OBVIOUS
    <2> QED
      BY <2>1 DEF Row
  <1>2. s[i].text \o c \in Seq(Nat)
    BY <1>1, Concats
  <1>6. Len(s) = 1 \/ Len(s) = 2
    <2>1. Len(s) \in Nat
      OBVIOUS
    <2>2. Len(s) # 0
      OBVIOUS
    <2> QED
      BY <2>1, <2>2, UpToTwo
  <1>7. CASE Len(s) = 1
    <2>1. i = 1
      BY <1>7
    <2>2. Text(t) = t[1].text /\ Text(s) = s[1].text
      BY <1>7, TextOf
    <2> QED
      BY <2>1, <2>2
  <1>8. CASE Len(s) = 2
    <2>1. Text(t) = t[1].text \o t[2].text
      <3>1. Len(t) = 2
        BY <1>8
      <3> QED
        BY <3>1, TextOf
    <2>2. Text(s) = s[1].text \o s[2].text
      BY <1>8, TextOf
    <2>3. s[1].text \in Seq(Nat) /\ s[2].text \in Seq(Nat)
      BY <1>1, <1>8
    <2>4. CASE i = 1
      <3>1. 2 \in i + 1..Len(s) /\ 2 \in 1..Len(s) /\ 2 # i
        BY <1>8, <2>4
      <3>2. t[2].text = <<>> /\ s[2].text = <<>> /\ t[1].text = s[1].text \o c
        BY <2>4, <3>1
      <3>3. (s[1].text \o c) \o <<>> = s[1].text \o c /\ s[1].text \o <<>> = s[1].text
        BY <1>2, <2>3, <2>4, Concats
      <3> QED
        BY <2>1, <2>2, <3>2, <3>3
    <2>5. CASE i = 2
      <3>1. 1 \in 1..Len(s) /\ 1 # i
        BY <1>8, <2>5
      <3>2. t[1].text = s[1].text /\ t[2].text = s[2].text \o c
        BY <2>5, <3>1
      <3> DEFINE a == s[1].text  b == s[2].text
      <3>3. (a \o b) \o c = a \o (b \o c)
        <4>1. a \in Seq(Nat) /\ b \in Seq(Nat)
          BY <2>3
        <4> HIDE DEF a, b
        <4> QED
          BY <4>1, Associative
      <3> QED
        BY <2>1, <2>2, <3>2, <3>3
    <2>6. i = 1 \/ i = 2
      BY <1>8
    <2> QED
      BY <2>4, <2>5, <2>6
  <1> QED
    BY <1>6, <1>7, <1>8

-----------------------------------------------------------------------------
(* The invariant at the start, and the types of every step. *)

LEMMA TwoTasks ==
    /\ "persister" \in Writers /\ "timer" \in Writers /\ Tasks = {"persister", "timer"}
    /\ "persister" \notin Users /\ "timer" \notin Users /\ Tasks \subseteq Writers
  BY RecordAssumption DEF Tasks, Writers

LEMMA CardTyped ==
    ASSUME NEW card \in Call, NEW kind \in Kinds PROVE CardUpdated(card, kind) \in Call
  <1>1. Absent \in Call /\ Running \in Call
    BY DEF Call, Absent, Running
  <1>2. \A n \in Nat : [card EXCEPT !.args = n] \in Call
    BY DEF Call
  <1>3. [card EXCEPT !.state = "done"] \in Call
    BY DEF Call
  <1>4. [card EXCEPT !.result = TRUE] \in Call
    BY DEF Call
  <1>5. CardDenied(card) \in Call
    BY DEF Call, CardDenied
  <1>6. card.args + 1 \in Nat
    BY DEF Call
  <1> QED
    BY <1>1, <1>2, <1>3, <1>4, <1>5, <1>6 DEF CardUpdated, Kinds

LEMMA Operations ==
    ASSUME NEW row \in Nat \cup {None}
    PROVE  /\ Idle \in Operation /\ Idle.stage = "none"
           /\ Write \in Operation /\ Write.stage = "write"
           /\ [Write EXCEPT !.row = row] \in Operation
           /\ [Write EXCEPT !.row = row].stage = "write" /\ [Write EXCEPT !.row = row].row = row
           /\ row = rowOf => OnRow \in Operation /\ OnRow.row = row
           /\ OnRow.stage = IF rowOf = None THEN "read" ELSE "write"
  BY DEF Idle, Write, OnRow, Operation

\* One writer begins an operation, whichever.
LEMMA OperationSet ==
    ASSUME op \in [Writers -> Operation], NEW w \in Writers, NEW operation \in Operation,
           NEW ops, ops = [op EXCEPT ![w] = operation]
    PROVE  /\ ops \in [Writers -> Operation] /\ ops[w] = operation
           /\ \A v \in Writers : v # w => ops[v] = op[v]
  OBVIOUS

LEMMA RowTyped ==
    ASSUME Texts PROVE rowOf \in Nat \cup {None} /\ Len(rows) \in Nat
  BY DEF Texts

LEMMA InitTyped == ASSUME Init PROVE Types /\ Texts
  <1>1. view \in [shown : BOOLEAN, text : Seq(Nat), finalized : BOOLEAN, calls : [Calls -> Call]]
    <2>1. [t \in Calls |-> Absent] \in [Calls -> Call]
      BY DEF Absent, Call
    <2> QED
      BY <2>1 DEF Init
  <1>2. op \in [Writers -> Operation]
    <2>1. Idle \in Operation /\ [Idle EXCEPT !.stage = "read"] \in Operation
      BY DEF Idle, Operation
    <2> QED
      BY <2>1 DEF Init
  <1>3. Types
    BY <1>1, <1>2 DEF Init, Types
  <1>4. Texts
    BY DEF Init, Texts
  <1> QED
    BY <1>3, <1>4

\* A frame that shows in the browser.
LEMMA BeginsTyped ==
    ASSUME Types, NEW kind, NEW t, NEW operation \in Operation, Begins(kind, t, operation)
    PROVE  persister' \in {"ready", "busy", "over", "dead"} /\ op' \in [Writers -> Operation]
  BY TwoTasks, OperationSet DEF Begins, Types

LEMMA ViewTyped ==
    ASSUME Types
    PROVE  /\ \A n \in Nat : [view EXCEPT !.text = Append(@, n)] \in
                [shown : BOOLEAN, text : Seq(Nat), finalized : BOOLEAN, calls : [Calls -> Call]]
           /\ \A t \in Calls, kind \in Kinds : [view EXCEPT !.calls[t] = CardUpdated(@, kind)] \in
                [shown : BOOLEAN, text : Seq(Nat), finalized : BOOLEAN, calls : [Calls -> Call]]
  <1>1. ASSUME NEW n \in Nat
        PROVE  [view EXCEPT !.text = Append(@, n)] \in
                 [shown : BOOLEAN, text : Seq(Nat), finalized : BOOLEAN, calls : [Calls -> Call]]
    <2>1. Append(view.text, n) \in Seq(Nat)
      BY DEF Types
    <2> QED
      BY <2>1 DEF Types
  <1>2. ASSUME NEW t \in Calls, NEW kind \in Kinds
        PROVE  [view EXCEPT !.calls[t] = CardUpdated(@, kind)] \in
                 [shown : BOOLEAN, text : Seq(Nat), finalized : BOOLEAN, calls : [Calls -> Call]]
    <2>1. view.calls[t] \in Call
      BY DEF Types
    <2>2. CardUpdated(view.calls[t], kind) \in Call
      BY <2>1, CardTyped
    <2> DEFINE c == CardUpdated(view.calls[t], kind)
    <2> HIDE DEF c
    <2>3. [view.calls EXCEPT ![t] = c] \in [Calls -> Call]
      BY <2>2 DEF Types, c
    <2>4. [view EXCEPT !.calls = [view.calls EXCEPT ![t] = c]] \in
            [shown : BOOLEAN, text : Seq(Nat), finalized : BOOLEAN, calls : [Calls -> Call]]
      BY <2>3 DEF Types
    <2> QED
      BY <2>4 DEF c
  <1> QED
    BY <1>1, <1>2

LEMMA RowReplaced ==
    ASSUME NEW s \in Seq(Row), NEW i \in 1..Len(s), NEW r \in Row, NEW t, t = [s EXCEPT ![i] = r]
    PROVE  /\ t \in Seq(Row) /\ Len(t) = Len(s) /\ t[i] = r
           /\ \A j \in 1..Len(s) : j # i => t[j] = s[j]
  OBVIOUS

LEMMA SameTextsReplaced ==
    ASSUME NEW s \in Seq(Row), NEW i \in 1..Len(s), NEW r \in Row, r.text = s[i].text,
           NEW t, t = [s EXCEPT ![i] = r]
    PROVE  t \in Seq(Row) /\ Len(t) = Len(s) /\ \A j \in 1..Len(s) : t[j].text = s[j].text
  <1>1. /\ t \in Seq(Row) /\ Len(t) = Len(s) /\ t[i] = r
        /\ \A j \in 1..Len(s) : j # i => t[j] = s[j]
    BY RowReplaced
  <1>2. ASSUME NEW j \in 1..Len(s) PROVE t[j].text = s[j].text
    <2>1. CASE j = i
      BY <1>1, <2>1
    <2>2. CASE j # i
      BY <1>1, <2>2
    <2> QED
      BY <2>1, <2>2
  <1> QED
    BY <1>1, <1>2

\* _finalize touches no text.
FinalizedAt(s, i) == [s EXCEPT ![i].finalized = TRUE]

LEMMA RowFinalized ==
    ASSUME NEW s \in Seq(Row), NEW i
    PROVE  /\ FinalizedAt(s, i) \in Seq(Row) /\ Len(FinalizedAt(s, i)) = Len(s)
           /\ \A j \in 1..Len(s) : FinalizedAt(s, i)[j].text = s[j].text
  <1> SUFFICES ASSUME NEW t, t = FinalizedAt(s, i)
               PROVE  t \in Seq(Row) /\ Len(t) = Len(s) /\ \A j \in 1..Len(s) : t[j].text = s[j].text
    OBVIOUS
  <1>3. t = [s EXCEPT ![i].finalized = TRUE]
    BY DEF FinalizedAt
  <1>1. ASSUME NEW j \in 1..Len(s), t = [s EXCEPT ![j].finalized = TRUE]
        PROVE  t \in Seq(Row) /\ Len(t) = Len(s) /\ \A k \in 1..Len(s) : t[k].text = s[k].text
    <2> DEFINE r == [s[j] EXCEPT !.finalized = TRUE]
    <2>1. s[j] \in Row
      OBVIOUS
    <2>2. r \in Row /\ r.text = s[j].text
      BY <2>1 DEF Row
    <2>3. t = [s EXCEPT ![j] = r]
      BY <1>1, <2>1 DEF Row
    <2> HIDE DEF r
    <2> DEFINE Same(u) == u \in Seq(Row) /\ Len(u) = Len(s) /\ \A k \in 1..Len(s) : u[k].text = s[k].text
    <2>4. ASSUME NEW u, u = [s EXCEPT ![j] = r] PROVE Same(u)
      BY <2>2, <2>4, SameTextsReplaced
    <2> HIDE DEF Same
    <2>5. Same(t)
      BY <2>3, <2>4
    <2> QED
      BY <2>5 DEF Same
  <1>2. CASE i \notin 1..Len(s)
    <2>1. t = s
      BY <1>2, <1>3
    <2> QED
      BY <2>1
  <1> QED
    BY <1>1, <1>2, <1>3

LEMMA RowsSwept ==
    ASSUME NEW s \in Seq(Row), NEW t, t = [i \in DOMAIN s |-> [s[i] EXCEPT !.finalized = TRUE]]
    PROVE  t \in Seq(Row) /\ Len(t) = Len(s) /\ \A j \in 1..Len(s) : t[j].text = s[j].text
  <1>1. \A j \in 1..Len(s) : s[j] \in Row
    OBVIOUS
  <1>2. \A j \in 1..Len(s) : /\ [s[j] EXCEPT !.finalized = TRUE] \in Row
                             /\ [s[j] EXCEPT !.finalized = TRUE].text = s[j].text
    BY <1>1 DEF Row
  <1> DEFINE r(j) == [s[j] EXCEPT !.finalized = TRUE]
  <1>3. \A j \in 1..Len(s) : r(j) \in Row /\ r(j).text = s[j].text
    BY <1>2
  <1>4. t = [j \in 1..Len(s) |-> r(j)]
    OBVIOUS
  <1> HIDE DEF r
  <1>5. t \in Seq(Row) /\ Len(t) = Len(s)
    <2>1. Len(s) \in Nat
      OBVIOUS
    <2>2. t \in [1..Len(s) -> Row]
      BY <1>3, <1>4
    <2> QED
      BY <2>1, <2>2
  <1> QED
    BY <1>3, <1>4, <1>5

LEMMA NextSeqIs == ASSUME NEW n \in Nat, numbers = 1..n PROVE NextSeq = n + 1
  <1>1. CASE n = 0
    BY <1>1 DEF NextSeq
  <1>2. CASE n # 0
    <2>1. n \in 1..n /\ \A m \in 1..n : n >= m
      BY <1>2
    <2>2. Max(1..n) = n
      BY <2>1 DEF Max
    <2> QED
      BY <1>2, <2>1, <2>2 DEF NextSeq
  <1> QED
    BY <1>1, <1>2

LEMMA NextSeqTyped == ASSUME NumbersInv PROVE NextSeq \in Nat
  BY NextSeqIs DEF NumbersInv

\* What a step does to the operations: one of them changes, or the tasks end.
LEMMA OperationsStep ==
    ASSUME Types, Texts, NumbersInv, [Next]_vars
    PROVE  \/ op' = op \/ op' = [w \in Writers |-> Idle]
           \/ \E w \in Writers, operation \in Operation :
                /\ op' = [op EXCEPT ![w] = operation]
                /\ operation.stage = "insert" => operation.seq = NextSeq
  <1> DEFINE Goal == \E w \in Writers, operation \in Operation :
                /\ op' = [op EXCEPT ![w] = operation]
                /\ operation.stage = "insert" => operation.seq = NextSeq
  <1>1. ASSUME NEW w \in Writers, NEW operation \in Operation, operation.stage # "insert",
               op' = [op EXCEPT ![w] = operation]
        PROVE  Goal
    BY <1>1
  <1> HIDE DEF Goal
  <1>2. /\ Idle \in Operation /\ Idle.stage # "insert" /\ Write \in Operation /\ Write.stage # "insert"
        /\ OnRow \in Operation /\ OnRow.stage # "insert"
        /\ \A row \in Nat \cup {None} : /\ [Write EXCEPT !.row = row] \in Operation
                                       /\ [Write EXCEPT !.row = row].stage # "insert"
    BY RowTyped, Operations
  <1>3. ASSUME NEW kind, NEW t, NEW operation \in Operation, operation.stage # "insert",
               Begins(kind, t, operation)
        PROVE  op' = op \/ Goal
    BY <1>1, <1>3, TwoTasks DEF Begins
  <1>4. CASE AgentSays
    <2>1. op' = op \/ Begins("text", None, OnRow)
      BY <1>4 DEF AgentSays, Buffers
    <2> QED
      BY <1>2, <1>3, <2>1 DEF Goal
  <1>5. CASE BubbleCloses
    <2>1. rowOf \in Nat \cup {None}
      BY RowTyped
    <2> DEFINE operation == IF buffer = <<>> THEN [Write EXCEPT !.row = rowOf] ELSE OnRow
    <2>2. operation \in Operation /\ operation.stage # "insert"
      BY <1>2, <2>1
    <2>3. op' = op \/ Begins("close", None, operation)
      BY <1>5 DEF BubbleCloses, EndFlushes
    <2> HIDE DEF operation
    <2> QED
      BY <1>3, <2>2, <2>3 DEF Goal
  <1>6. ASSUME NEW t \in Calls, NEW kind \in Kinds, ToolFrame(kind, t) PROVE op' = op \/ Goal
    BY <1>2, <1>3, <1>6 DEF ToolFrame
  <1>7. CASE PersisterFlushed \/ Finalized \/ CallWritten
    <2>1. op' = op \/ op' = [op EXCEPT !["persister"] = Idle]
      BY <1>7 DEF PersisterFlushed, Finalized, CallWritten, Ready
    <2> QED
      BY <1>1, <1>2, <2>1, TwoTasks
  <1>8. CASE TimerFires \/ TimerFlushed
    <2>1. op' = op \/ op' = [op EXCEPT !["timer"] = Idle] \/ op' = [op EXCEPT !["timer"] = OnRow]
      BY <1>8 DEF TimerFires, TimerFlushed
    <2> QED
      BY <1>1, <1>2, <2>1, TwoTasks
  <1>9. ASSUME NEW w \in Writers, Raised(w) PROVE Goal
    BY <1>1, <1>2, <1>9 DEF Raised
  <1>10. ASSUME NEW w \in Writers, Reads(w) PROVE Goal
    <2> DEFINE o == [op[w] EXCEPT !.stage = "insert", !.seq = NextSeq, !.tries = @ + 1]
    <2>1. op[w] \in Operation
      BY DEF Types
    <2>2. o \in Operation /\ o.seq = NextSeq
      <3> DEFINE n == NextSeq
      <3>1. n \in Nat
        BY NextSeqTyped
      <3>2. op[w].tries + 1 \in Nat
        BY <2>1 DEF Operation
      <3> HIDE DEF n
      <3>3. [op[w] EXCEPT !.stage = "insert", !.seq = n, !.tries = @ + 1] \in Operation
        BY <2>1, <3>1, <3>2 DEF Operation
      <3>4. [op[w] EXCEPT !.stage = "insert", !.seq = n, !.tries = @ + 1].seq = n
        BY <2>1 DEF Operation
      <3> QED
        BY <3>3, <3>4 DEF n
    <2>3. op' = [op EXCEPT ![w] = o]
      BY <1>10, <2>1 DEF Reads, Types, Operation
    <2> HIDE DEF o
    <2> QED
      BY <2>2, <2>3 DEF Goal
  <1>11. ASSUME NEW w \in Writers, Inserts(w) PROVE Goal
    <2>1. CASE w \in Tasks
      <3> DEFINE row == Len(rows')
      <3>1. row \in Nat
        BY <1>11, <2>1 DEF Inserts, Texts, Row
      <3>2. op' = [op EXCEPT ![w] = [Write EXCEPT !.row = row]]
        BY <1>11, <2>1 DEF Inserts
      <3> HIDE DEF row
      <3> QED
        BY <1>1, <1>2, <3>1, <3>2
    <2>2. CASE w \notin Tasks
      BY <1>1, <1>2, <1>11, <2>2 DEF Inserts
    <2> QED
      BY <2>1, <2>2
  <1>12. ASSUME NEW w \in Writers, Collides(w) PROVE Goal
    <2> DEFINE o == [op[w] EXCEPT !.stage = "read"]
    <2>1. op[w] \in Operation
      BY DEF Types
    <2>2. o \in Operation /\ o.stage # "insert"
      BY <2>1 DEF Operation
    <2>3. CASE op' = [op EXCEPT ![w].stage = "read"]
      <3>1. op' = [op EXCEPT ![w] = o]
        BY <2>1, <2>3 DEF Types, Operation
      <3> HIDE DEF o
      <3> QED
        BY <1>1, <2>2, <3>1
    <2> QED
      BY <1>9, <1>12, <2>3 DEF Collides
  <1>13. CASE RunStarts \/ BubbleOpens \/ RunEnds \/ RunBreaks \/ PersisterTimesOut \/ UNCHANGED vars
    BY <1>13 DEF RunStarts, BubbleOpens, RunEnds, RunBreaks, PersisterTimesOut, vars
  <1>14. CASE BackendRestarts
    BY <1>14 DEF BackendRestarts
  <1>15. ASSUME NEW w \in Writers, Fails(w) PROVE Goal
    BY <1>9, <1>15 DEF Fails
  <1> QED
    BY <1>4, <1>5, <1>6, <1>7, <1>8, <1>10, <1>11, <1>12, <1>13, <1>14, <1>15 DEF Next, Goal

LEMMA TypesStep == ASSUME RecordInv, [Next]_vars PROVE Types'
  <1> DEFINE View == [shown : BOOLEAN, text : Seq(Nat), finalized : BOOLEAN, calls : [Calls -> Call]]
             Runs == {"idle", "started", "open", "closing", "over"}
             Tasks4 == {"ready", "busy", "over", "dead"}
  <1>1. op' \in [Writers -> Operation]
    <2>1. Idle \in Operation
      BY RowTyped, Operations DEF RecordInv
    <2> QED
      BY <2>1, OperationsStep, OperationSet DEF RecordInv, Types
  <1>2. run' \in Runs /\ timer' \in BOOLEAN /\ holed' \in BOOLEAN
    <2>1. run \in Runs /\ timer \in BOOLEAN /\ holed \in BOOLEAN
      BY DEF RecordInv, Types
    <2>2. CASE RunStarts \/ BubbleOpens \/ RunEnds \/ RunBreaks \/ PersisterTimesOut \/ UNCHANGED vars
      BY <2>1, <2>2 DEF RunStarts, BubbleOpens, RunEnds, RunBreaks, PersisterTimesOut, vars, agentVars, debounceVars
    <2>3. CASE AgentSays \/ BubbleCloses
      BY <2>1, <2>3 DEF AgentSays, Buffers, BubbleCloses, EndFlushes, agentVars
    <2>4. CASE \E t \in Calls, kind \in Kinds : ToolFrame(kind, t)
      BY <2>1, <2>4 DEF ToolFrame, debounceVars
    <2>5. CASE PersisterFlushed \/ Finalized \/ CallWritten \/ TimerFires \/ TimerFlushed
      BY <2>1, <2>5 DEF PersisterFlushed, Finalized, CallWritten, TimerFires, TimerFlushed, agentVars, debounceVars
    <2>6. CASE BackendRestarts
      BY <2>1, <2>6 DEF BackendRestarts
    <2>7. ASSUME NEW w \in Writers, Raised(w) PROVE run' \in Runs /\ timer' \in BOOLEAN /\ holed' \in BOOLEAN
      BY <2>1, <2>7 DEF Raised, agentVars
    <2>8. CASE \E w \in Writers : Reads(w) \/ Inserts(w) \/ Collides(w) \/ Fails(w)
      BY <2>1, <2>7, <2>8 DEF Reads, Inserts, Collides, Fails, agentVars, debounceVars
    <2> QED
      BY <2>2, <2>3, <2>4, <2>5, <2>6, <2>8 DEF Next
  <1>3. persister' \in Tasks4
    <2>1. persister \in Tasks4
      BY DEF RecordInv, Types
    <2>2. CASE RunStarts \/ BubbleOpens \/ RunEnds \/ RunBreaks \/ PersisterTimesOut \/ UNCHANGED vars
      BY <2>1, <2>2 DEF RunStarts, BubbleOpens, RunEnds, RunBreaks, Returns, PersisterTimesOut, vars
    <2>3. CASE AgentSays \/ BubbleCloses
      BY <2>1, <2>3 DEF AgentSays, Buffers, BubbleCloses, EndFlushes, Begins
    <2>4. CASE \E t \in Calls, kind \in Kinds : ToolFrame(kind, t)
      BY <2>1, <2>4 DEF ToolFrame, Begins
    <2>5. CASE PersisterFlushed \/ Finalized \/ CallWritten \/ TimerFires \/ TimerFlushed
      BY <2>1, <2>5 DEF PersisterFlushed, Finalized, CallWritten, Ready, TimerFires, TimerFlushed
    <2>6. CASE BackendRestarts
      BY <2>6 DEF BackendRestarts
    <2>7. ASSUME NEW w \in Writers, Raised(w) PROVE persister' \in Tasks4
      BY <2>1, <2>7 DEF Raised
    <2>8. CASE \E w \in Writers : Reads(w) \/ Inserts(w) \/ Collides(w) \/ Fails(w)
      BY <2>1, <2>7, <2>8 DEF Reads, Inserts, Collides, Fails
    <2> QED
      BY <2>2, <2>3, <2>4, <2>5, <2>6, <2>8 DEF Next
  <1>4. view' \in View
    <2>1. view \in View
      BY DEF RecordInv, Types
    <2>2. CASE UNCHANGED view
      BY <2>1, <2>2
    <2>3. CASE BubbleOpens \/ BubbleCloses
      BY <2>1, <2>3 DEF BubbleOpens, BubbleCloses
    <2>4. CASE AgentSays
      <3>1. Len(view.text) + 1 \in Nat
        BY <2>1
      <3> QED
        BY <2>4, <3>1, ViewTyped DEF AgentSays, RecordInv
    <2>5. CASE \E t \in Calls, kind \in Kinds : ToolFrame(kind, t)
      BY <2>5, ViewTyped DEF ToolFrame, RecordInv
    <2>6. BubbleOpens \/ BubbleCloses \/ AgentSays \/ (\E t \in Calls, kind \in Kinds : ToolFrame(kind, t)) \/ UNCHANGED view
      BY DEF Next, vars, RunStarts, RunEnds, RunBreaks, PersisterTimesOut, PersisterFlushed, Finalized,
             CallWritten, TimerFires, TimerFlushed, Reads, Inserts, Collides, Fails, Raised, BackendRestarts
    <2> QED
      BY <2>2, <2>3, <2>4, <2>5, <2>6
  <1> QED
    BY <1>1, <1>2, <1>3, <1>4 DEF Types

-----------------------------------------------------------------------------
(* The numbers. *)

LEMMA NumbersStep == ASSUME Types, Texts, NumbersInv, [Next]_vars PROVE NumbersInv'
  <1>1. PICK n \in Nat : /\ numbers = 1..n
                         /\ \A w \in Writers : op[w].stage = "insert" => op[w].seq \in 1..n + 1
    BY DEF NumbersInv
  <1>2. ASSUME NEW v \in Writers, op'[v].stage = "insert" PROVE op'[v].seq \in 1..n + 1
    <2>1. CASE op' = op
      BY <1>1, <1>2, <2>1
    <2>2. CASE op' = [w \in Writers |-> Idle]
      BY <1>2, <2>2 DEF Idle
    <2>3. ASSUME NEW w \in Writers, NEW operation \in Operation, op' = [op EXCEPT ![w] = operation],
                 operation.stage = "insert" => operation.seq = NextSeq
          PROVE  op'[v].seq \in 1..n + 1
      <3>1. /\ op' \in [Writers -> Operation] /\ op'[w] = operation
            /\ \A u \in Writers : u # w => op'[u] = op[u]
        BY <2>3, OperationSet DEF Types
      <3>2. NextSeq = n + 1
        BY <1>1, NextSeqIs
      <3>3. CASE v = w
        BY <1>2, <2>3, <3>1, <3>2, <3>3
      <3>4. CASE v # w
        BY <1>1, <1>2, <3>1, <3>4
      <3> QED
        BY <3>3, <3>4
    <2> QED
      BY <2>1, <2>2, <2>3, OperationsStep
  <1>3. numbers' = numbers \/ \E w \in Writers : Inserts(w)
    BY DEF Next, vars, tableVars, RunStarts, BubbleOpens, AgentSays, BubbleCloses, RunEnds, RunBreaks, ToolFrame,
           PersisterTimesOut, PersisterFlushed, Finalized, CallWritten, TimerFires, TimerFlushed,
           Reads, Collides, Fails, Raised, BackendRestarts
  <1>4. CASE numbers' = numbers
    BY <1>1, <1>2, <1>4 DEF NumbersInv
  <1>5. ASSUME NEW w \in Writers, Inserts(w) PROVE NumbersInv'
    <2>1. /\ op[w].stage = "insert" /\ op[w].seq \notin 1..n
          /\ numbers' = 1..n \cup {op[w].seq}
      BY <1>1, <1>5 DEF Inserts
    <2>2. op[w].seq = n + 1
      BY <1>1, <2>1
    <2>3. numbers' = 1..n + 1 /\ n + 1 \in Nat /\ 1..n + 1 \subseteq 1..(n + 1) + 1
      BY <2>1, <2>2
    <2>4. \A v \in Writers : op'[v].stage = "insert" => op'[v].seq \in 1..(n + 1) + 1
      BY <1>2, <2>3
    <2> QED
      BY <2>3, <2>4 DEF NumbersInv
  <1> QED
    BY <1>3, <1>4, <1>5

-----------------------------------------------------------------------------
(* The rows and who works on them, one lemma per kind of step. *)

RowsInv == Texts /\ BusyInv /\ TwoRows /\ OneChunk

\* An operation that only goes from its read to its INSERT and back.
SameOperations ==
    \A w \in Tasks :
        /\ op'[w].row = op[w].row
        /\ \/ op'[w].stage = op[w].stage
           \/ op'[w].stage \in {"read", "insert"} /\ op[w].stage \in {"read", "insert"}

\* The persister is left as it is, or it goes.
SamePersister ==
    /\ job' = job
    /\ persister' = "over" => run' = "over"
    /\ persister' = persister \/ (persister = "ready" /\ persister' \in {"over", "dead"})

LEMMA RowsKept ==
    ASSUME RowsInv, SameOperations, SamePersister, UNCHANGED <<buffer, timer, chunk, rowOf, rows>>
    PROVE  RowsInv'
  <1> USE TwoTasks DEF RowsInv, SameOperations, SamePersister
  <1>1. Texts'
    BY DEF Texts
  <1>2. BusyInv'
    BY DEF BusyInv
  <1>3. TwoRows'
    BY DEF TwoRows, Inserting, BusyInv
  <1>4. OneChunk'
    BY DEF OneChunk, BusyInv
  <1> QED
    BY <1>1, <1>2, <1>3, <1>4

\* A frame for an idle persister, with the deltas it flushes.
LEMMA RowsBegun ==
    ASSUME RowsInv, Types, persister = "ready",
           NEW kind \in TextJobs \cup Kinds, NEW t, NEW operation \in Operation,
           operation.stage # "insert",
           operation.stage = "read" => rowOf = None,
           Begins(kind, t, operation), UNCHANGED <<rowOf, rows>>,
           kind \in TextJobs =>
             /\ LockFree /\ buffer' = <<>> /\ chunk' \in [Tasks -> Seq(Nat)]
             /\ timer' \in BOOLEAN
             /\ chunk'["timer"] = chunk["timer"]
             /\ chunk'["persister"] # <<>> => operation.stage # "none" /\ (operation.stage = "write" => rowOf # None /\ operation.row = rowOf),
           kind \notin TextJobs => UNCHANGED <<buffer, timer, chunk>>
    PROVE  RowsInv'
  <1> USE TwoTasks DEF RowsInv
  <1>1. /\ persister' = "busy" /\ job'[1] = kind
        /\ op' = [op EXCEPT !["persister"] = operation]
    BY DEF Begins
  <1>2. /\ op'["persister"] = operation /\ op'["timer"] = op["timer"]
    BY <1>1, OperationSet DEF Types
  <1>3. Texts'
    <2>1. buffer' \in Seq(Nat) /\ chunk' \in [Tasks -> Seq(Nat)]
      <3>1. CASE kind \in TextJobs
        <4>1. <<>> \in Seq(Nat)
          OBVIOUS
        <4> QED
          BY <3>1, <4>1
      <3>2. CASE kind \notin TextJobs
        BY <3>2 DEF Texts
      <3> QED
        BY <3>1, <3>2
    <2> QED
      BY <2>1 DEF Texts
  <1>4. BusyInv'
    BY <1>1, <1>2 DEF BusyInv
  <1>5. op["persister"].stage = "none" /\ chunk["persister"] = <<>> /\ (rowOf = None => rows = <<>>)
    BY DEF BusyInv, OneChunk, TwoRows
  <1>6. TwoRows'
    <2>1. Len(rows) + Inserting("timer") <= 2 /\ Inserting("timer")' = Inserting("timer")
      BY <1>2, <1>5, RowTyped DEF TwoRows, Inserting
    <2>2. operation.stage = "read" => Len(rows) = 0
      BY <1>5
    <2>3. Inserting("persister")' = IF operation.stage = "read" THEN 1 ELSE 0
      BY <1>2 DEF Inserting, Operation
    <2>4. Inserting("timer") \in {0, 1}
      BY DEF Inserting
    <2>5. Len(rows) + (Inserting("persister") + Inserting("timer"))' <= 2
      BY <2>1, <2>2, <2>3, <2>4, RowTyped
    <2> QED
      BY <1>1, <1>2, <1>5, <2>1, <2>2, <2>3, <2>4 DEF TwoRows, LockFree
  <1>7. OneChunk'
    <2>1. CASE kind \in TextJobs
      <3>1. LockFree /\ buffer' = <<>> /\ chunk'["timer"] = <<>> /\ op'["timer"].stage = "none"
        BY <1>2, <2>1 DEF LockFree, OneChunk
      <3>2. ASSUME chunk'["persister"] # <<>>, operation.stage = "write"
            PROVE  operation.row \in 1..Len(rows) /\ operation.row = Len(rows)
        BY <2>1, <3>2 DEF TwoRows, Texts
      <3>3. chunk'["persister"] # <<>> => operation.stage # "none"
        BY <2>1
      <3>4. ASSUME NEW w \in Tasks, chunk'[w] # <<>>, op'[w].stage = "write"
            PROVE  op'[w].row \in 1..Len(rows) /\ op'[w].row = Len(rows)
        BY <1>2, <3>1, <3>2, <3>4
      <3>5. ASSUME NEW w \in Tasks, chunk'[w] # <<>>, op'[w].stage = "write"
            PROVE  op'[w].row \in 1..Len(rows) /\ \A i \in op'[w].row + 1..Len(rows) : rows[i].text = <<>>
        BY <3>4, <3>5, RowTyped
      <3> QED
        BY <1>1, <1>2, <2>1, <3>1, <3>3, <3>5 DEF OneChunk
    <2>2. CASE kind \notin TextJobs
      BY <1>1, <1>2, <1>5, <2>2 DEF OneChunk
    <2> QED
      BY <2>1, <2>2
  <1> QED
    BY <1>3, <1>4, <1>6, <1>7

\* A delta is buffered.
LEMMA RowsBuffered ==
    ASSUME RowsInv, persister = "ready", LockFree, buffer' \in Seq(Nat), timer' = TRUE,
           UNCHANGED <<persister, job, op, chunk, rowOf, rows>>
    PROVE  RowsInv'
  <1> USE TwoTasks DEF RowsInv
  <1>1. Texts'
    BY DEF Texts
  <1>2. BusyInv'
    BY DEF BusyInv
  <1>3. TwoRows'
    BY DEF TwoRows, Inserting
  <1>4. OneChunk'
    BY DEF OneChunk, BusyInv
  <1> QED
    BY <1>1, <1>2, <1>3, <1>4

\* A flush writes into a row, at the end of the text.
LEMMA FlushStores ==
    ASSUME RowsInv, NEW w \in Tasks, op[w].stage = "write", chunk[w] # <<>>, Stored(w)
    PROVE  rows' \in Seq(Row) /\ Len(rows') = Len(rows) /\ Text(rows') = Text(rows) \o chunk[w]
  <1>1. /\ op[w].row \in 1..Len(rows)
        /\ \A i \in op[w].row + 1..Len(rows) : rows[i].text = <<>>
    BY DEF RowsInv, OneChunk
  <1>2. chunk[w] \in Seq(Nat) /\ rows \in Seq(Row)
    BY DEF RowsInv, Texts
  <1>3. Len(rows) <= 2
    <2>1. Inserting("persister") \in {0, 1} /\ Inserting("timer") \in {0, 1}
      BY DEF Inserting
    <2> QED
      BY <2>1, RowTyped DEF RowsInv, TwoRows
  <1>4. ASSUME NEW i \in 1..Len(rows), i = op[w].row
        PROVE  rows' \in Seq(Row) /\ Len(rows') = Len(rows) /\ Text(rows') = Text(rows) \o chunk[w]
    <2> DEFINE c == chunk[w]
               r == [rows[i] EXCEPT !.text = @ \o c]
    <2>1. rows[i] \in Row /\ rows[i].text \in Seq(Nat)
      <3>1. rows[i] \in Row
        BY <1>2
      <3> QED
        BY <3>1 DEF Row
    <2>2. rows[i].text \o c \in Seq(Nat)
      BY <1>2, <2>1, Concats
    <2>3. r \in Row /\ r.text = rows[i].text \o c
      BY <2>1, <2>2 DEF Row
    <2>4. rows' = [rows EXCEPT ![i] = r]
      BY <1>2, <1>4, <2>1 DEF Stored, Row
    <2>5. c \in Seq(Nat) /\ \A j \in i + 1..Len(rows) : rows[j].text = <<>>
      BY <1>1, <1>2, <1>4
    <2> HIDE DEF r, c
    <2>6. /\ rows' \in Seq(Row) /\ Len(rows') = Len(rows) /\ rows'[i] = r
          /\ \A j \in 1..Len(rows) : j # i => rows'[j] = rows[j]
      BY <1>2, <2>3, <2>4, RowReplaced
    <2>7. Text(rows') = Text(rows) \o c
      BY <1>2, <1>3, <2>3, <2>5, <2>6, TextStored
    <2> QED
      BY <2>6, <2>7 DEF c
  <1> QED
    BY <1>1, <1>4

\* The persister is done with a write, with the frame or only with its flush.
LEMMA RowsWritten ==
    ASSUME RowsInv, Types, op["persister"].stage = "write",
           rows' \in Seq(Row), Len(rows') = Len(rows),
           chunk["timer"] # <<>> => \A i \in 1..Len(rows) : rows'[i].text = rows[i].text,
           chunk' = [chunk EXCEPT !["persister"] = <<>>],
           Ready \/ UNCHANGED <<persister, job, op>>,
           UNCHANGED <<buffer, timer, rowOf>>
    PROVE  RowsInv'
  <1> USE TwoTasks DEF RowsInv
  <1>1. /\ op'["timer"] = op["timer"]
        /\ \/ op'["persister"] = Idle /\ persister' = "ready"
           \/ op' = op /\ persister' = persister /\ job' = job
    BY Operations, RowTyped, OperationSet DEF Ready, Types
  <1>2. chunk' \in [Tasks -> Seq(Nat)] /\ chunk'["persister"] = <<>> /\ chunk'["timer"] = chunk["timer"]
    BY DEF Texts
  <1>3. Texts'
    BY <1>2 DEF Texts
  <1>4. BusyInv'
    BY <1>1 DEF BusyInv, Idle
  <1>5. TwoRows'
    <2>1. Inserting("persister")' = 0 /\ Inserting("persister") = 0 /\ Inserting("timer")' = Inserting("timer")
      BY <1>1 DEF Inserting, Idle
    <2>2. persister = "busy" /\ (rowOf = None => Len(rows) = 0)
      BY DEF BusyInv, TwoRows
    <2>3. rowOf' = None => rows' = <<>>
      BY <2>2, EmptySeq
    <2> QED
      BY <1>1, <2>1, <2>3 DEF TwoRows
  <1>6. OneChunk'
    <2>1. ASSUME chunk'["timer"] # <<>>, op'["timer"].stage = "write"
          PROVE  /\ op'["timer"].row \in 1..Len(rows')
                 /\ \A i \in op'["timer"].row + 1..Len(rows') : rows'[i].text = <<>>
      <3>1. /\ op["timer"].row \in 1..Len(rows)
            /\ \A i \in op["timer"].row + 1..Len(rows) : rows[i].text = <<>>
        BY <1>1, <1>2, <2>1 DEF OneChunk
      <3> QED
        BY <1>1, <1>2, <2>1, <3>1, SMTT(30)
    <2>2. op'["timer"].stage # "none" => ~(persister' = "busy" /\ job'[1] \in TextJobs)
      BY <1>1 DEF OneChunk
    <2> QED
      BY <1>1, <1>2, <2>1, <2>2 DEF OneChunk
  <1> QED
    BY <1>3, <1>4, <1>5, <1>6

\* The timer takes what is buffered.
LEMMA RowsTaken == ASSUME RowsInv, Types, TimerFires PROVE RowsInv'
  <1> USE TwoTasks DEF RowsInv
  <1>1. CASE buffer = <<>>
    <2>1. UNCHANGED <<persister, job, op, chunk, rowOf, rows>> /\ buffer' = <<>> /\ timer' = FALSE /\ LockFree
      BY <1>1 DEF TimerFires, tableVars
    <2>6. run' = run
      BY DEF TimerFires, agentVars
    <2>2. Texts'
      BY <2>1 DEF Texts
    <2>3. BusyInv'
      BY <2>1, <2>6 DEF BusyInv
    <2>4. TwoRows'
      BY <2>1 DEF TwoRows, Inserting, LockFree
    <2>5. OneChunk'
      BY <2>1 DEF OneChunk
    <2> QED
      BY <2>2, <2>3, <2>4, <2>5
  <1>2. CASE buffer # <<>>
    <2>1. /\ op'["persister"] = op["persister"] /\ op'["timer"] = OnRow
          /\ OnRow.stage = (IF rowOf = None THEN "read" ELSE "write") /\ OnRow.row = rowOf
      <3>1. op' = [op EXCEPT !["timer"] = OnRow]
        BY <1>2 DEF TimerFires
      <3>2. OnRow \in Operation /\ OnRow.row = rowOf /\ OnRow.stage = (IF rowOf = None THEN "read" ELSE "write")
        BY RowTyped, Operations
      <3> QED
        BY <3>1, <3>2, OperationSet DEF Types
    <2>2. /\ chunk' \in [Tasks -> Seq(Nat)] /\ chunk'["timer"] = buffer /\ buffer' = <<>>
          /\ chunk'["persister"] = <<>> /\ chunk["persister"] = <<>>
      BY <1>2 DEF TimerFires, Texts, OneChunk
    <2>3. /\ UNCHANGED <<persister, job, timer, rowOf, rows>> /\ timer /\ op["timer"].stage = "none"
          /\ ~(persister = "busy" /\ job[1] \in TextJobs)
      BY <1>2 DEF TimerFires, tableVars, LockFree, TextJobs
    <2>4. Texts'
      BY <2>2, <2>3 DEF Texts
    <2>5. BusyInv'
      BY <2>1, <2>3 DEF BusyInv, TimerFires, agentVars
    <2>6. TwoRows'
      <3>1. rowOf = None => Len(rows) = 0
        BY <2>3 DEF TwoRows
      <3>2. Inserting("persister")' = Inserting("persister") /\ Inserting("persister") \in {0, 1}
        BY <2>1 DEF Inserting
      <3>3. Inserting("timer")' = (IF rowOf = None THEN 1 ELSE 0) /\ Inserting("timer") = 0
        BY <2>1, <2>3 DEF Inserting
      <3>4. Len(rows) + (Inserting("persister") + Inserting("timer"))' <= 2
        BY <3>1, <3>2, <3>3, RowTyped DEF TwoRows
      <3> QED
        BY <2>1, <2>3, <3>1, <3>2, <3>3, RowTyped DEF TwoRows
    <2>7. OneChunk'
      <3>1. rowOf # None => rowOf \in 1..Len(rows) /\ rowOf = Len(rows)
        BY DEF Texts, TwoRows
      <3>2. rowOf # None => \A i \in rowOf + 1..Len(rows) : rows[i].text = <<>>
        BY <3>1, RowTyped
      <3> QED
        BY <1>2, <2>1, <2>2, <2>3, <3>1, <3>2 DEF OneChunk
    <2> QED
      BY <2>4, <2>5, <2>6, <2>7
  <1> QED
    BY <1>1, <1>2

\* A task's INSERT is committed.
LEMMA RowsInserted ==
    ASSUME RowsInv, Types, NEW w \in Tasks, Inserts(w)
    PROVE  RowsInv' /\ Len(rows) <= 1 /\ rows' = Append(rows, [text |-> <<>>, finalized |-> FALSE])
  <1> USE TwoTasks DEF RowsInv
  <1> DEFINE row == [text |-> <<>>, finalized |-> FALSE]
  <1>1. row \in Row /\ row.text = <<>>
    BY DEF Row
  <1>2. /\ rows' = Append(rows, row) /\ rowOf' = Len(rows')
        /\ op' = [op EXCEPT ![w] = [Write EXCEPT !.row = Len(rows')]]
        /\ UNCHANGED <<persister, job, timer, buffer, chunk>>
    BY DEF Inserts, debounceVars
  <1> HIDE DEF row
  <1>3. /\ rows' \in Seq(Row) /\ Len(rows') = Len(rows) + 1 /\ rows'[Len(rows) + 1] = row
        /\ \A i \in 1..Len(rows) : rows'[i] = rows[i]
    BY <1>1, <1>2, AppendProperties DEF Texts
  <1>4. /\ op'[w].stage = "write" /\ op'[w].row = Len(rows) + 1
        /\ \A v \in Tasks : v # w => op'[v] = op[v]
    <2>1. Len(rows) + 1 \in Nat \cup {None}
      BY RowTyped
    <2> DEFINE o == [Write EXCEPT !.row = Len(rows) + 1]
    <2>2. o \in Operation /\ o.stage = "write" /\ o.row = Len(rows) + 1
      BY <2>1, Operations
    <2>3. op' = [op EXCEPT ![w] = o]
      BY <1>2, <1>3
    <2> HIDE DEF o
    <2> QED
      BY <2>2, <2>3, OperationSet DEF Types
  <1>5. op[w].stage = "insert"
    BY DEF Inserts
  <1>6. Texts'
    BY <1>2, <1>3, RowTyped DEF Texts
  <1>7. BusyInv'
    BY <1>2, <1>4, <1>5 DEF BusyInv, Inserts, agentVars
  <1>8. Inserting(w) = 1 /\ Inserting(w)' = 0 /\ \A v \in Tasks : Inserting(v) \in {0, 1} /\ (v # w => Inserting(v)' = Inserting(v))
    BY <1>4, <1>5 DEF Inserting
  <1>9. Len(rows) <= 1 /\ Len(rows') + Inserting("persister")' + Inserting("timer")' <= 2
    <2>1. CASE w = "persister"
      BY <1>3, <1>8, <2>1, RowTyped DEF TwoRows
    <2>2. CASE w = "timer"
      BY <1>3, <1>8, <2>2, RowTyped DEF TwoRows
    <2> QED
      BY <2>1, <2>2
  <1>10. TwoRows'
    <2>1. rowOf' # None
      BY <1>2, <1>3, RowTyped, RecordAssumption
    <2>2. op'["timer"].stage # "none" => timer'
      BY <1>2, <1>4, <1>5 DEF TwoRows
    <2> QED
      BY <1>2, <1>9, <2>1, <2>2 DEF TwoRows
  <1>11. OneChunk'
    <2>1. /\ chunk'["persister"] # <<>> =>
               op'["persister"].stage # "none" /\ job'[1] \in TextJobs /\ buffer' = <<>>
          /\ chunk'["timer"] # <<>> <=> op'["timer"].stage # "none"
          /\ op'["timer"].stage # "none" => ~(persister' = "busy" /\ job'[1] \in TextJobs)
      BY <1>2, <1>4, <1>5 DEF OneChunk
    <2>2. ASSUME NEW v \in Tasks, chunk'[v] # <<>>, op'[v].stage = "write"
          PROVE  op'[v].row \in 1..Len(rows') /\ \A i \in op'[v].row + 1..Len(rows') : rows'[i].text = <<>>
      <3>1. CASE v = w
        BY <1>3, <1>4, <3>1, RowTyped
      <3>2. CASE v # w
        <4>1. /\ op'[v] = op[v] /\ op[v].row \in 1..Len(rows)
              /\ \A i \in op[v].row + 1..Len(rows) : rows[i].text = <<>>
          BY <1>2, <1>4, <2>2, <3>2 DEF OneChunk
        <4>2. op[v].row \in 1..Len(rows')
          BY <1>3, <4>1, RowTyped
        <4>3. ASSUME NEW i \in op[v].row + 1..Len(rows') PROVE rows'[i].text = <<>>
          <5>1. i \in op[v].row + 1..Len(rows) \/ i = Len(rows) + 1
            BY <1>3, <4>1, RowTyped
          <5>2. i \in op[v].row + 1..Len(rows) => i \in 1..Len(rows)
            BY <4>1, RowTyped
          <5> QED
            BY <1>1, <1>3, <4>1, <5>1, <5>2 DEF row
        <4> QED
          BY <4>1, <4>2, <4>3
      <3> QED
        BY <3>1, <3>2
    <2> QED
      BY <2>1, <2>2 DEF OneChunk
  <1> QED
    BY <1>2, <1>6, <1>7, <1>9, <1>10, <1>11 DEF row

\* The operation of a task raises.
LEMMA RowsRaised ==
    ASSUME RowsInv, Types, NEW w \in Tasks, Raised(w)
    PROVE  RowsInv'
  <1> USE TwoTasks DEF RowsInv
  <1>1. /\ op'[w] = Idle /\ \A v \in Tasks : v # w => op'[v] = op[v]
        /\ Idle.stage = "none"
    BY Operations, RowTyped, OperationSet DEF Raised, Types
  <1>2. /\ chunk' \in [Tasks -> Seq(Nat)] /\ chunk'[w] = <<>>
        /\ \A v \in Tasks : v # w => chunk'[v] = chunk[v]
    BY DEF Raised, Texts
  <1>3. UNCHANGED <<job, buffer, rowOf, rows>>
    BY DEF Raised, tableVars
  <1>4. CASE w = "persister"
    <2>1. persister' = "dead" /\ timer' = timer
      BY <1>4 DEF Raised, Types
    <2>2. Texts'
      BY <1>2, <1>3 DEF Texts
    <2>3. BusyInv'
      BY <1>1, <1>4, <2>1 DEF BusyInv
    <2>4. TwoRows'
      <3>1. Inserting("persister")' = 0 /\ Inserting("persister") \in {0, 1} /\ Inserting("timer")' = Inserting("timer")
            /\ Inserting("timer") \in {0, 1}
        BY <1>1, <1>4 DEF Inserting
      <3>2. Len(rows) + Inserting("persister")' + Inserting("timer")' <= 2
        BY <3>1, RowTyped DEF TwoRows
      <3> QED
        BY <1>1, <1>3, <1>4, <2>1, <3>2 DEF TwoRows
    <2>5. OneChunk'
      BY <1>1, <1>2, <1>3, <1>4, <2>1 DEF OneChunk
    <2> QED
      BY <2>2, <2>3, <2>4, <2>5
  <1>5. CASE w = "timer"
    <2>1. persister' = persister /\ timer' = FALSE
      BY <1>5 DEF Raised, Types
    <2>2. Texts'
      BY <1>2, <1>3 DEF Texts
    <2>3. BusyInv'
      BY <1>1, <1>3, <1>5, <2>1 DEF BusyInv, Raised, agentVars
    <2>4. TwoRows'
      <3>1. Inserting("timer")' = 0 /\ Inserting("timer") \in {0, 1} /\ Inserting("persister")' = Inserting("persister")
            /\ Inserting("persister") \in {0, 1}
        BY <1>1, <1>5 DEF Inserting
      <3>2. Len(rows) + Inserting("persister")' + Inserting("timer")' <= 2
        BY <3>1, RowTyped DEF TwoRows
      <3> QED
        BY <1>1, <1>3, <1>5, <2>1, <3>2 DEF TwoRows
    <2>5. OneChunk'
      BY <1>1, <1>2, <1>3, <1>5, <2>1 DEF OneChunk
    <2> QED
      BY <2>2, <2>3, <2>4, <2>5
  <1> QED
    BY <1>4, <1>5

\* Nothing is left of the tasks.
LEMMA RowsRestarted ==
    ASSUME RowsInv, BackendRestarts
    PROVE  RowsInv' /\ Text(rows') = Text(rows)
  <1> USE TwoTasks DEF RowsInv
  <1>1. /\ rows' \in Seq(Row) /\ Len(rows') = Len(rows)
        /\ \A j \in 1..Len(rows) : rows'[j].text = rows[j].text
    BY RowsSwept, SMTT(30) DEF BackendRestarts, Texts
  <1>2. /\ op' = [v \in Writers |-> Idle] /\ chunk' = [v \in Tasks |-> <<>>]
        /\ persister' = "dead" /\ job' = None /\ buffer' = <<>> /\ timer' = FALSE /\ rowOf' = None
    BY DEF BackendRestarts
  <1>3. Inserting("persister") \in {0, 1} /\ Inserting("timer") \in {0, 1}
        /\ Inserting("persister")' = 0 /\ Inserting("timer")' = 0
    BY <1>2 DEF Inserting, Idle
  <1>4. Len(rows) <= 2 /\ Len(rows') + Inserting("persister")' + Inserting("timer")' <= 2
    BY <1>1, <1>3, RowTyped DEF TwoRows
  <1>5. Texts'
    BY <1>1, <1>2 DEF Texts
  <1>6. BusyInv'
    BY <1>2 DEF BusyInv, Idle
  <1>7. TwoRows'
    BY <1>2, <1>4 DEF TwoRows, Idle
  <1>8. OneChunk'
    BY <1>2 DEF OneChunk, Idle
  <1>9. Text(rows') = Text(rows)
    BY <1>1, <1>4, SameTexts DEF Texts
  <1> QED
    BY <1>5, <1>6, <1>7, <1>8, <1>9

-----------------------------------------------------------------------------
(* The text: stored, pending, and the rest. *)

LEMMA Pends ==
    ASSUME NEW p \in Seq(Nat), NEW q \in Seq(Nat), NEW b \in Seq(Nat),
           NEW pq, pq = p \o q, NEW x, x = pq \o b
    PROVE  /\ x \in Seq(Nat)
           /\ p = <<>> => x = q \o b
           /\ p = <<>> /\ q = <<>> => x = b
           /\ p = <<>> /\ b = <<>> => x = q
           /\ q = <<>> /\ b = <<>> => x = p
  <1>1. p \o q \in Seq(Nat) /\ q \o b \in Seq(Nat)
    BY Concats
  <1>2. x \in Seq(Nat)
    BY <1>1, Concats
  <1>3. <<>> \o q = q /\ q \o <<>> = q /\ p \o <<>> = p /\ <<>> \o b = b
    BY Concats
  <1>4. p = <<>> => pq = q
    BY <1>3
  <1>5. q = <<>> => pq = p
    BY <1>3
  <1> QED
    BY <1>2, <1>3, <1>4, <1>5, Zenon

LEMMA PendingIs ==
    ASSUME Texts
    PROVE  /\ Pending \in Seq(Nat)
           /\ chunk["persister"] = <<>> => Pending = chunk["timer"] \o buffer
           /\ chunk["persister"] = <<>> /\ chunk["timer"] = <<>> => Pending = buffer
           /\ chunk["persister"] = <<>> /\ buffer = <<>> => Pending = chunk["timer"]
           /\ chunk["timer"] = <<>> /\ buffer = <<>> => Pending = chunk["persister"]
  <1> DEFINE p == chunk["persister"]  q == chunk["timer"]  b == buffer  pq == p \o q
  <1>1. p \in Seq(Nat) /\ q \in Seq(Nat) /\ b \in Seq(Nat) /\ Pending = pq \o b
    BY TwoTasks DEF Pending, Texts
  <1>3. pq = p \o q
    OBVIOUS
  <1> HIDE DEF p, q, b, pq
  <1>2. Pending \in Seq(Nat)
    BY <1>1, <1>3, Pends
  <1>4. p = <<>> => Pending = q \o b
    BY <1>1, <1>3, Pends
  <1>5. p = <<>> /\ q = <<>> => Pending = b
    BY <1>1, <1>3, Pends
  <1>6. p = <<>> /\ b = <<>> => Pending = q
    BY <1>1, <1>3, Pends
  <1>7. q = <<>> /\ b = <<>> => Pending = p
    BY <1>1, <1>3, Pends
  <1> QED
    BY <1>1, <1>2, <1>4, <1>5, <1>6, <1>7, Zenon DEF p, q, b

LEMMA PendingWillBe ==
    ASSUME Texts'
    PROVE  /\ Pending' \in Seq(Nat)
           /\ chunk'["persister"] = <<>> => Pending' = chunk'["timer"] \o buffer'
           /\ chunk'["persister"] = <<>> /\ chunk'["timer"] = <<>> => Pending' = buffer'
           /\ chunk'["persister"] = <<>> /\ buffer' = <<>> => Pending' = chunk'["timer"]
           /\ chunk'["timer"] = <<>> /\ buffer' = <<>> => Pending' = chunk'["persister"]
  <1> DEFINE p == chunk'["persister"]  q == chunk'["timer"]  b == buffer'  pq == p \o q
  <1>1. p \in Seq(Nat) /\ q \in Seq(Nat) /\ b \in Seq(Nat) /\ Pending' = pq \o b
    BY TwoTasks DEF Pending, Texts
  <1>3. pq = p \o q
    OBVIOUS
  <1> HIDE DEF p, q, b, pq
  <1>2. Pending' \in Seq(Nat)
    BY <1>1, <1>3, Pends
  <1>4. p = <<>> => Pending' = q \o b
    BY <1>1, <1>3, Pends
  <1>5. p = <<>> /\ q = <<>> => Pending' = b
    BY <1>1, <1>3, Pends
  <1>6. p = <<>> /\ b = <<>> => Pending' = q
    BY <1>1, <1>3, Pends
  <1>7. q = <<>> /\ b = <<>> => Pending' = p
    BY <1>1, <1>3, Pends
  <1> QED
    BY <1>1, <1>2, <1>4, <1>5, <1>6, <1>7, Zenon DEF p, q, b

LEMMA TextIs == ASSUME RowsInv PROVE Text(rows) \in Seq(Nat) /\ Len(rows) <= 2
  <1>1. Inserting("persister") \in {0, 1} /\ Inserting("timer") \in {0, 1}
    BY DEF Inserting
  <1>2. Len(rows) <= 2
    BY <1>1, RowTyped DEF RowsInv, TwoRows
  <1> QED
    BY <1>2, TextTyped DEF RowsInv, Texts

\* Deltas move from one place to the next.
LEMMA TextMoves ==
    ASSUME TextInv, view'.text = view.text, holed' = holed,
           Text(rows') \o Pending' = Text(rows) \o Pending,
           persister' # "dead" => persister # "dead"
    PROVE  TextInv'
  <1>1. CASE holed
    BY <1>1 DEF TextInv
  <1>2. CASE ~holed
    <2>1. PICK rest \in Seq(Nat) : /\ view.text = Text(rows) \o Pending \o rest
                                   /\ persister # "dead" => rest = <<>>
      BY <1>2 DEF TextInv
    <2>2. view'.text = Text(rows') \o Pending' \o rest
      BY <2>1
    <2>3. persister' # "dead" => rest = <<>>
      BY <2>1
    <2> QED
      BY <2>2, <2>3 DEF TextInv
  <1> QED
    BY <1>1, <1>2

\* What is pending is lost with the persister.
LEMMA TextDropped ==
    ASSUME TextInv, RowsInv, view'.text = view.text, holed' = holed,
           Text(rows') = Text(rows), Pending' = <<>>, persister' = "dead"
    PROVE  TextInv'
  <1>1. CASE holed
    BY <1>1 DEF TextInv
  <1>2. CASE ~holed
    <2>1. PICK rest \in Seq(Nat) : view.text = Text(rows) \o Pending \o rest
      BY <1>2 DEF TextInv
    <2> DEFINE x == Text(rows)  p == Pending
    <2>2. x \in Seq(Nat) /\ p \in Seq(Nat)
      BY TextIs, PendingIs DEF RowsInv
    <2>3. view.text = (x \o p) \o rest
      BY <2>1
    <2>4. (x \o p) \o rest = x \o (p \o rest) /\ p \o rest \in Seq(Nat) /\ x \o <<>> = x
      <3> HIDE DEF x, p
      <3>1. (x \o p) \o rest = x \o (p \o rest)
        BY <2>2, Associative
      <3>2. p \o rest \in Seq(Nat) /\ x \o <<>> = x
        BY <2>2, Concats
      <3> QED
        BY <3>1, <3>2
    <2>5. view'.text = Text(rows') \o Pending' \o (p \o rest)
      <3>1. Text(rows') \o Pending' = x
        BY <2>4
      <3> QED
        BY <2>3, <2>4, <3>1
    <2> HIDE DEF x, p
    <2> QED
      BY <2>4, <2>5 DEF TextInv
  <1> QED
    BY <1>1, <1>2

\* A delta is let out: it is pending, or nobody listens.
LEMMA TextSaid ==
    ASSUME TextInv, RowsInv, NEW delta \in Nat, view'.text = Append(view.text, delta),
           UNCHANGED <<holed, rows>>,
           \/ Pending' = Append(Pending, delta) /\ persister # "dead"
           \/ Pending' = Pending /\ persister' = "dead"
    PROVE  TextInv'
  <1>1. CASE holed
    BY <1>1 DEF TextInv
  <1>2. CASE ~holed
    <2>1. PICK rest \in Seq(Nat) : /\ view.text = Text(rows) \o Pending \o rest
                                   /\ persister # "dead" => rest = <<>>
      BY <1>2 DEF TextInv
    <2> DEFINE x == Text(rows)  p == Pending  y == x \o p
    <2>2. x \in Seq(Nat) /\ p \in Seq(Nat)
      BY TextIs, PendingIs DEF RowsInv
    <2>3. y \in Seq(Nat) /\ y \o <<>> = y /\ Append(p, delta) \in Seq(Nat)
          /\ Append(y, delta) = x \o Append(p, delta)
          /\ x \o Append(p, delta) \in Seq(Nat)
          /\ (x \o Append(p, delta)) \o <<>> = x \o Append(p, delta)
      <3> HIDE DEF x, p
      <3>5. y \in Seq(Nat)
        BY <2>2, Concats
      <3>6. Append(p, delta) \in Seq(Nat) /\ Append(x \o p, delta) = x \o Append(p, delta)
        BY <2>2, AppendConcat
      <3>1. y \in Seq(Nat) /\ Append(p, delta) \in Seq(Nat) /\ Append(y, delta) = x \o Append(p, delta)
        BY <3>5, <3>6
      <3>4. y \o <<>> = y
        <4> HIDE DEF y
        <4> QED
          BY <3>1, Concats
      <3> DEFINE z == x \o Append(p, delta)
      <3>2. z \in Seq(Nat)
        BY <2>2, <3>1, Concats
      <3> HIDE DEF z
      <3>3. z \o <<>> = z
        BY <3>2, Concats
      <3> QED
        BY <3>1, <3>2, <3>3, <3>4 DEF z
    <2>4. CASE Pending' = Append(Pending, delta) /\ persister # "dead"
      <3>1. view.text = y
        BY <2>1, <2>3, <2>4
      <3>2. view'.text = x \o Append(p, delta)
        BY <2>3, <3>1
      <3>3. view'.text = Text(rows') \o Pending' \o <<>>
        BY <2>3, <2>4, <3>2
      <3> QED
        BY <3>3, EmptySeq DEF TextInv
    <2>5. CASE Pending' = Pending /\ persister' = "dead"
      <3>1. view.text = y \o rest
        BY <2>1
      <3>2. Append(y \o rest, delta) = y \o Append(rest, delta) /\ Append(rest, delta) \in Seq(Nat)
        <4>1. y \in Seq(Nat)
          BY <2>3
        <4> HIDE DEF y
        <4> QED
          BY <4>1, AppendConcat
      <3>3. view'.text = Text(rows') \o Pending' \o Append(rest, delta)
        BY <2>5, <3>1, <3>2
      <3> QED
        BY <2>5, <3>2, <3>3 DEF TextInv
    <2> QED
      BY <2>4, <2>5
  <1> QED
    BY <1>1, <1>2

-----------------------------------------------------------------------------
(* Every step. *)

LEMMA Kept ==
    ASSUME RowsInv, TextInv, SameOperations, SamePersister,
           UNCHANGED <<buffer, timer, chunk, rowOf, rows, holed>>, view'.text = view.text
    PROVE  RowsInv' /\ TextInv'
  <1>1. RowsInv'
    BY RowsKept
  <1>2. Pending' = Pending
    BY DEF Pending
  <1>3. persister' # "dead" => persister # "dead"
    BY DEF SamePersister
  <1>4. TextInv'
    BY <1>2, <1>3, TextMoves
  <1> QED
    BY <1>1, <1>4

LEMMA NoFrame ==
    ASSUME RecordInv,
           RunStarts \/ BubbleOpens \/ RunEnds \/ RunBreaks \/ PersisterTimesOut \/ UNCHANGED vars
    PROVE  RowsInv' /\ TextInv'
  <1>1. SameOperations /\ SamePersister
    BY DEF SameOperations, SamePersister, RunStarts, BubbleOpens, RunEnds, RunBreaks, Returns, PersisterTimesOut, vars,
           agentVars, RecordInv, BusyInv
  <1>2. UNCHANGED <<buffer, timer, chunk, rowOf, rows, holed>> /\ view'.text = view.text
    BY DEF RunStarts, BubbleOpens, RunEnds, RunBreaks, PersisterTimesOut, vars, debounceVars, tableVars,
           RecordInv, Types
  <1> QED
    BY <1>1, <1>2, Kept DEF RecordInv, RowsInv

LEMMA OnRowIs ==
    ASSUME RowsInv
    PROVE  /\ OnRow \in Operation /\ OnRow.stage \in {"read", "write"}
           /\ OnRow.stage = "read" => rowOf = None
           /\ OnRow.stage = "write" => rowOf # None /\ OnRow.row = rowOf
           /\ Write \in Operation /\ Write.stage = "write"
           /\ [Write EXCEPT !.row = rowOf] \in Operation /\ [Write EXCEPT !.row = rowOf].stage = "write"
  BY RowTyped, Operations DEF RowsInv

LEMMA ToolFrameKeeps ==
    ASSUME RecordInv, NEW t \in Calls, NEW kind \in Kinds, ToolFrame(kind, t)
    PROVE  RowsInv' /\ TextInv'
  <1>1. UNCHANGED <<buffer, timer, chunk, rowOf, rows, holed>> /\ view'.text = view.text /\ RowsInv /\ Types /\ TextInv
    BY DEF ToolFrame, debounceVars, tableVars, RecordInv, RowsInv, Types
  <1>2. CASE persister = "ready"
    <2> DEFINE operation == IF kind = "call" THEN OnRow ELSE Write
    <2>1. operation \in Operation /\ operation.stage # "insert" /\ (operation.stage = "read" => rowOf = None)
      BY <1>1, OnRowIs
    <2>2. Begins(kind, t, operation) /\ kind \notin TextJobs
      BY DEF ToolFrame, Kinds, TextJobs
    <2>3. persister' = "busy"
      BY <1>2, <2>2 DEF Begins
    <2> HIDE DEF operation
    <2>4. RowsInv'
      BY <1>1, <1>2, <2>1, <2>2, RowsBegun
    <2>5. Pending' = Pending
      BY <1>1 DEF Pending
    <2>6. TextInv'
      BY <1>1, <1>2, <2>3, <2>5, TextMoves
    <2> QED
      BY <2>4, <2>6
  <1>3. CASE persister # "ready"
    <2>1. SameOperations /\ SamePersister
      BY <1>1, <1>3 DEF ToolFrame, Begins, SameOperations, SamePersister, RowsInv, BusyInv
    <2> QED
      BY <1>1, <2>1, Kept
  <1> QED
    BY <1>2, <1>3

\* A persister that is idle has nothing to write.
LEMMA Idles ==
    ASSUME RowsInv, persister = "ready"
    PROVE  /\ op["persister"].stage = "none" /\ chunk["persister"] = <<>>
           /\ LockFree => chunk["timer"] = <<>>
  BY DEF RowsInv, BusyInv, OneChunk, LockFree

LEMMA AgentSaysKeeps == ASSUME RecordInv, AgentSays PROVE RowsInv' /\ TextInv'
  <1> DEFINE delta == Len(view.text) + 1
  <1>1. delta \in Nat /\ RowsInv /\ Types /\ TextInv /\ buffer \in Seq(Nat) /\ chunk \in [Tasks -> Seq(Nat)]
    BY DEF RecordInv, RowsInv, Types, Texts
  <1>2. /\ view'.text = Append(view.text, delta) /\ Buffers(delta)
        /\ UNCHANGED <<holed, rowOf, rows>>
    BY DEF AgentSays, tableVars, RecordInv, Types
  <1> HIDE DEF delta
  <1>3. Append(buffer, delta) \in Seq(Nat)
    BY <1>1
  <1>4. CASE persister = "ready" /\ LockFree /\ buffer' = Append(buffer, delta) /\ timer' = TRUE
             /\ UNCHANGED <<persister, job, op, chunk>>
    <2>1. RowsInv'
      BY <1>1, <1>2, <1>3, <1>4, RowsBuffered
    <2>2. Pending = buffer /\ Pending' = buffer'
      BY <1>1, <1>4, <2>1, Idles, PendingIs, PendingWillBe DEF RowsInv
    <2>3. TextInv'
      BY <1>1, <1>2, <1>4, <2>2, TextSaid
    <2> QED
      BY <2>1, <2>3
  <1>5. CASE /\ persister = "ready" /\ LockFree
             /\ Begins("text", None, OnRow)
             /\ chunk' = [chunk EXCEPT !["persister"] = Append(buffer, delta)]
             /\ buffer' = <<>>
             /\ UNCHANGED timer
    <2>1. /\ chunk' \in [Tasks -> Seq(Nat)] /\ chunk'["persister"] = Append(buffer, delta)
          /\ chunk'["timer"] = chunk["timer"] /\ timer' \in BOOLEAN
      BY <1>1, <1>3, <1>5, TwoTasks DEF Types
    <2>2. RowsInv'
      BY <1>1, <1>2, <1>5, <2>1, OnRowIs, RowsBegun DEF TextJobs
    <2>3. Pending = buffer /\ Pending' = Append(buffer, delta)
      BY <1>1, <1>5, <2>1, <2>2, Idles, PendingIs, PendingWillBe DEF RowsInv
    <2>4. TextInv'
      BY <1>1, <1>2, <1>5, <2>3, TextSaid
    <2> QED
      BY <2>2, <2>4
  <1>6. CASE persister \in {"over", "dead"} /\ UNCHANGED <<persister, job, op, buffer, timer, chunk>>
    <2>5. run = "open" /\ persister = "dead"
      BY <1>1, <1>6 DEF AgentSays, RowsInv, BusyInv
    <2>1. SameOperations /\ SamePersister
      BY <1>6, <2>5 DEF SameOperations, SamePersister
    <2>2. RowsInv'
      BY <1>1, <1>2, <1>6, <2>1, RowsKept
    <2>3. Pending' = Pending
      BY <1>6 DEF Pending
    <2>4. TextInv'
      BY <1>1, <1>2, <1>6, <2>3, <2>5, TextSaid
    <2> QED
      BY <2>2, <2>4
  <1> QED
    BY <1>2, <1>4, <1>5, <1>6 DEF Buffers

LEMMA BubbleClosesKeeps == ASSUME RecordInv, BubbleCloses PROVE RowsInv' /\ TextInv'
  <1>1. RowsInv /\ Types /\ TextInv /\ buffer \in Seq(Nat) /\ chunk \in [Tasks -> Seq(Nat)]
    BY DEF RecordInv, RowsInv, Texts
  <1>2. view'.text = view.text /\ EndFlushes /\ UNCHANGED <<holed, rowOf, rows>>
    BY DEF BubbleCloses, tableVars, RecordInv, Types
  <1>3. CASE persister = "ready"
    <2> DEFINE operation == IF buffer = <<>> THEN [Write EXCEPT !.row = rowOf] ELSE OnRow
    <2>1. /\ LockFree /\ timer' = FALSE /\ buffer' = <<>>
          /\ chunk' = [chunk EXCEPT !["persister"] = buffer] /\ Begins("close", None, operation)
      BY <1>2, <1>3 DEF EndFlushes
    <2>2. /\ operation \in Operation /\ operation.stage \in {"read", "write"}
          /\ operation.stage = "read" => rowOf = None
          /\ buffer # <<>> => (operation.stage = "write" => rowOf # None /\ operation.row = rowOf)
      BY <1>1, OnRowIs
    <2>3. /\ chunk' \in [Tasks -> Seq(Nat)] /\ chunk'["persister"] = buffer
          /\ chunk'["timer"] = chunk["timer"]
      BY <1>1, <2>1, TwoTasks
    <2>4. persister' = "busy"
      BY <1>3, <2>1 DEF Begins
    <2> HIDE DEF operation
    <2>5. RowsInv'
      BY <1>1, <1>2, <1>3, <2>1, <2>2, <2>3, RowsBegun DEF TextJobs
    <2>6. Pending = buffer /\ Pending' = buffer
      BY <1>1, <1>3, <2>1, <2>3, <2>5, Idles, PendingIs, PendingWillBe DEF RowsInv
    <2>7. TextInv'
      BY <1>1, <1>2, <1>3, <2>4, <2>6, TextMoves
    <2> QED
      BY <2>5, <2>7
  <1>4. CASE persister # "ready"
    <2>1. SameOperations /\ SamePersister /\ UNCHANGED <<buffer, timer, chunk>>
      BY <1>1, <1>2, <1>4 DEF EndFlushes, SameOperations, SamePersister, BubbleCloses, RowsInv, BusyInv
    <2> QED
      BY <1>1, <1>2, <2>1, Kept
  <1> QED
    BY <1>3, <1>4

LEMMA PersisterFlushedKeeps == ASSUME RecordInv, PersisterFlushed PROVE RowsInv' /\ TextInv'
  <1>1. RowsInv /\ Types /\ TextInv /\ chunk \in [Tasks -> Seq(Nat)]
    BY DEF RecordInv, RowsInv, Texts
  <1>2. /\ op["persister"].stage = "write" /\ chunk["persister"] # <<>> /\ Stored("persister")
        /\ chunk' = [chunk EXCEPT !["persister"] = <<>>]
        /\ Ready \/ UNCHANGED <<persister, job, op>>
        /\ UNCHANGED <<view, buffer, timer, holed, rowOf>>
    BY DEF PersisterFlushed
  <1>3. persister = "busy" /\ chunk["timer"] = <<>> /\ buffer = <<>>
    BY <1>1, <1>2 DEF RowsInv, BusyInv, OneChunk
  <1>4. rows' \in Seq(Row) /\ Len(rows') = Len(rows) /\ Text(rows') = Text(rows) \o chunk["persister"]
    BY <1>1, <1>2, TwoTasks, FlushStores
  <1>5. RowsInv'
    BY <1>1, <1>2, <1>3, <1>4, RowsWritten
  <1>6. chunk'["persister"] = <<>> /\ chunk'["timer"] = <<>> /\ buffer' = <<>>
    BY <1>1, <1>2, <1>3, TwoTasks
  <1>7. Pending = chunk["persister"] /\ Pending' = <<>>
    BY <1>1, <1>3, <1>5, <1>6, PendingIs, PendingWillBe DEF RowsInv
  <1>8. Text(rows') \in Seq(Nat)
    BY <1>1, <1>4, TextIs, TextTyped
  <1>9. Text(rows') \o <<>> = Text(rows')
    BY <1>8, Concats
  <1>10. TextInv'
    BY <1>1, <1>2, <1>3, <1>4, <1>7, <1>9, TextMoves
  <1> QED
    BY <1>5, <1>10

LEMMA FrameEnds ==
    ASSUME RecordInv, Finalized \/ CallWritten
    PROVE  RowsInv' /\ TextInv'
  <1>1. RowsInv /\ Types /\ TextInv /\ chunk \in [Tasks -> Seq(Nat)] /\ rows \in Seq(Row)
    BY DEF RecordInv, RowsInv, Texts
  <1>2. /\ op["persister"].stage = "write" /\ Ready
        /\ UNCHANGED <<view, buffer, timer, chunk, holed, rowOf>>
    BY DEF Finalized, CallWritten, debounceVars
  <1>3. persister = "busy"
    BY <1>1, <1>2 DEF RowsInv, BusyInv
  <1>4. chunk["persister"] = <<>>
    BY <1>1 DEF Finalized, CallWritten, RowsInv, OneChunk, TextJobs
  <1>5. rows' \in Seq(Row) /\ Len(rows') = Len(rows) /\ \A i \in 1..Len(rows) : rows'[i].text = rows[i].text
    <2>1. CASE rows' = rows
      BY <1>1, <2>1
    <2>2. CASE rows' = [rows EXCEPT ![op["persister"].row].finalized = TRUE]
      <3>1. rows' = FinalizedAt(rows, op["persister"].row)
        BY <2>2 DEF FinalizedAt
      <3> QED
        BY <1>1, <3>1, RowFinalized
    <2> QED
      BY <2>1, <2>2 DEF Finalized, CallWritten
  <1>6. chunk' = [chunk EXCEPT !["persister"] = <<>>]
    BY <1>1, <1>2, <1>4, TwoTasks
  <1>7. RowsInv'
    BY <1>1, <1>2, <1>5, <1>6, RowsWritten
  <1>8. Pending' = Pending
    BY <1>2 DEF Pending
  <1>9. Text(rows') = Text(rows)
    BY <1>1, <1>5, TextIs, SameTexts
  <1>10. TextInv'
    BY <1>1, <1>2, <1>3, <1>8, <1>9, TextMoves
  <1> QED
    BY <1>7, <1>10

LEMMA TimerFiresKeeps == ASSUME RecordInv, TimerFires PROVE RowsInv' /\ TextInv'
  <1>1. RowsInv /\ Types /\ TextInv /\ chunk \in [Tasks -> Seq(Nat)]
    BY DEF RecordInv, RowsInv, Texts
  <1>2. RowsInv'
    BY <1>1, RowsTaken
  <1>3. UNCHANGED <<view, persister, holed, rows>> /\ buffer' = <<>> /\ LockFree
    BY DEF TimerFires, tableVars
  <1>4. chunk["timer"] = <<>>
    BY <1>1, <1>3 DEF RowsInv, OneChunk, LockFree
  <1>5. chunk["persister"] = <<>>
    BY <1>1 DEF RowsInv, OneChunk, BusyInv, TimerFires, TextJobs
  <1>6. chunk'["persister"] = <<>> /\ chunk'["timer"] = buffer
    BY <1>1, <1>4, <1>5, TwoTasks DEF TimerFires
  <1>7. Pending = buffer /\ Pending' = buffer
    BY <1>1, <1>2, <1>3, <1>4, <1>5, <1>6, PendingIs, PendingWillBe DEF RowsInv
  <1>8. TextInv'
    BY <1>1, <1>3, <1>7, TextMoves
  <1> QED
    BY <1>2, <1>8

LEMMA TimerFlushedKeeps == ASSUME RecordInv, TimerFlushed PROVE RowsInv' /\ TextInv'
  <1>1. RowsInv /\ Types /\ TextInv /\ chunk \in [Tasks -> Seq(Nat)] /\ buffer \in Seq(Nat)
    BY DEF RecordInv, RowsInv, Texts
  <1>2. /\ op["timer"].stage = "write" /\ Stored("timer")
        /\ chunk' = [chunk EXCEPT !["timer"] = <<>>]
        /\ op' = [op EXCEPT !["timer"] = Idle]
        /\ timer' = FALSE
        /\ UNCHANGED <<view, persister, job, buffer, holed, rowOf>>
    BY DEF TimerFlushed
  <1>3. chunk["timer"] # <<>> /\ chunk["persister"] = <<>>
    BY <1>1, <1>2 DEF RowsInv, OneChunk, BusyInv
  <1>4. rows' \in Seq(Row) /\ Len(rows') = Len(rows) /\ Text(rows') = Text(rows) \o chunk["timer"]
    BY <1>1, <1>2, <1>3, TwoTasks, FlushStores
  <1>5. op'["timer"].stage = "none" /\ op'["persister"] = op["persister"]
    <2>1. Idle \in Operation /\ Idle.stage = "none"
      BY <1>1, RowTyped, Operations DEF RowsInv
    <2> QED
      BY <1>1, <1>2, <2>1, TwoTasks, OperationSet DEF Types
  <1>6. chunk' \in [Tasks -> Seq(Nat)] /\ chunk'["timer"] = <<>> /\ chunk'["persister"] = <<>>
    BY <1>1, <1>2, <1>3, TwoTasks
  <1>7. RowsInv'
    <2> USE <1>1, <1>2, TwoTasks DEF RowsInv
    <2>1. Texts'
      BY <1>4, <1>6 DEF Texts
    <2>2. BusyInv'
      BY <1>5 DEF BusyInv, TimerFlushed, agentVars
    <2>3. TwoRows'
      <3>1. rows = <<>> => rows' = <<>>
        BY <1>4, EmptySeq
      <3>2. Inserting("timer")' = 0 /\ Inserting("timer") = 0 /\ Inserting("persister")' = Inserting("persister")
        BY <1>5 DEF Inserting
      <3> QED
        BY <1>4, <1>5, <3>1, <3>2 DEF TwoRows
    <2>4. OneChunk'
      BY <1>5, <1>6 DEF OneChunk
    <2> QED
      BY <2>1, <2>2, <2>3, <2>4
  <1>8. Pending = chunk["timer"] \o buffer /\ Pending' = buffer
    BY <1>1, <1>2, <1>3, <1>6, <1>7, PendingIs, PendingWillBe DEF RowsInv
  <1>9. Text(rows) \in Seq(Nat) /\ chunk["timer"] \in Seq(Nat)
    BY <1>1, TwoTasks, TextIs
  <1>10. (Text(rows) \o chunk["timer"]) \o buffer = Text(rows) \o (chunk["timer"] \o buffer)
    <2> DEFINE x == Text(rows)  c == chunk["timer"]
    <2>1. x \in Seq(Nat) /\ c \in Seq(Nat)
      BY <1>9
    <2> HIDE DEF x, c
    <2>2. (x \o c) \o buffer = x \o (c \o buffer)
      BY <1>1, <2>1, Associative
    <2> QED
      BY <2>2 DEF x, c
  <1>11. Text(rows') \o Pending' = Text(rows) \o Pending
    BY <1>4, <1>8, <1>10
  <1>12. TextInv'
    BY <1>1, <1>2, <1>11, TextMoves
  <1> QED
    BY <1>7, <1>12

LEMMA InsertKeeps == ASSUME RecordInv, NEW w \in Writers, Inserts(w) PROVE RowsInv' /\ TextInv'
  <1>1. RowsInv /\ Types /\ TextInv /\ rows \in Seq(Row)
    BY DEF RecordInv, RowsInv, Texts
  <1>2. UNCHANGED <<view, persister, job, buffer, timer, chunk, holed>>
    BY DEF Inserts, debounceVars
  <1>3. CASE w \in Tasks
    <2>1. RowsInv' /\ Len(rows) <= 1 /\ rows' = Append(rows, [text |-> <<>>, finalized |-> FALSE])
      BY <1>1, <1>3, RowsInserted
    <2> DEFINE row == [text |-> <<>>, finalized |-> FALSE]
    <2>2. row \in Row /\ row.text = <<>>
      BY DEF Row
    <2>3. Text(rows') = Text(rows)
      <3> HIDE DEF row
      <3>1. Text(Append(rows, row)) = Text(rows)
        BY <1>1, <2>1, <2>2, RowAdded
      <3> QED
        BY <2>1, <3>1 DEF row
    <2>4. Pending' = Pending
      BY <1>2 DEF Pending
    <2>5. TextInv'
      BY <1>1, <1>2, <2>3, <2>4, TextMoves
    <2> QED
      BY <2>1, <2>5
  <1>4. CASE w \notin Tasks
    <2>1. op' = [op EXCEPT ![w] = Idle] /\ UNCHANGED <<rows, rowOf>>
      BY <1>4 DEF Inserts
    <2>2. SameOperations /\ SamePersister
      BY <1>1, <1>2, <1>4, <2>1, TwoTasks DEF SameOperations, SamePersister, Types, Inserts, agentVars, RowsInv, BusyInv
    <2> QED
      BY <1>1, <1>2, <2>1, <2>2, Kept
  <1> QED
    BY <1>3, <1>4

LEMMA RaiseKeeps == ASSUME RecordInv, NEW w \in Writers, Raised(w) PROVE RowsInv' /\ TextInv'
  <1>1. RowsInv /\ Types /\ TextInv /\ rows \in Seq(Row) /\ chunk \in [Tasks -> Seq(Nat)]
    BY DEF RecordInv, RowsInv, Texts
  <1>2. UNCHANGED <<view, job, buffer, rowOf, rows>>
    BY DEF Raised, tableVars
  <1>3. CASE w = "timer"
    <2>1. RowsInv'
      BY <1>1, <1>3, TwoTasks, RowsRaised
    <2>2. holed' = TRUE
      BY <1>1, <1>3 DEF Raised, Types
    <2> QED
      BY <2>1, <2>2 DEF TextInv
  <1>4. CASE w = "persister"
    <2>1. RowsInv'
      BY <1>1, <1>4, TwoTasks, RowsRaised
    <2>2. /\ persister' = "dead" /\ holed' = holed
          /\ chunk'["persister"] = <<>> /\ chunk'["timer"] = chunk["timer"]
      BY <1>1, <1>4, TwoTasks DEF Raised, Types
    <2>3. CASE chunk["persister"] = <<>>
      <3>1. Pending' = Pending
        BY <1>2, <2>2, <2>3 DEF Pending
      <3> QED
        BY <1>1, <1>2, <2>1, <2>2, <3>1, TextMoves
    <2>4. CASE chunk["persister"] # <<>>
      <3>1. chunk["timer"] = <<>> /\ buffer = <<>>
        BY <1>1, <2>4 DEF RowsInv, BusyInv, OneChunk
      <3>2. Pending' = <<>>
        BY <1>2, <2>1, <2>2, <3>1, PendingWillBe DEF RowsInv
      <3> QED
        BY <1>1, <1>2, <2>1, <2>2, <3>2, TextDropped
    <2> QED
      BY <2>3, <2>4
  <1>5. CASE w \notin Tasks
    <2>1. /\ op' = [op EXCEPT ![w] = Idle]
          /\ UNCHANGED <<chunk, persister, timer, holed>>
      BY <1>1, <1>5, TwoTasks DEF Raised, Types
    <2>2. SameOperations /\ SamePersister
      BY <1>1, <1>2, <1>5, <2>1, TwoTasks DEF SameOperations, SamePersister, Types, Raised, agentVars, RowsInv, BusyInv
    <2> QED
      BY <1>1, <1>2, <2>1, <2>2, Kept
  <1> QED
    BY <1>3, <1>4, <1>5, TwoTasks

LEMMA ReadKeeps ==
    ASSUME RecordInv, NEW w \in Writers,
           Reads(w) \/ (Collides(w) /\ ~Raised(w))
    PROVE  RowsInv' /\ TextInv'
  <1>1. RowsInv /\ Types /\ TextInv
    BY DEF RecordInv, RowsInv
  <1>2. UNCHANGED <<view, persister, job, buffer, timer, chunk, holed, rowOf, rows>>
    BY DEF Reads, Collides, debounceVars, tableVars
  <1>3. op[w] \in Operation
    BY <1>1 DEF Types
  <1>4. SamePersister
    BY <1>1, <1>2 DEF SamePersister, Reads, Collides, agentVars, RowsInv, BusyInv
  <1>5. SameOperations
    <2>1. CASE Reads(w)
      BY <1>1, <1>3, <2>1, TwoTasks DEF Reads, SameOperations, Types, Operation
    <2>2. CASE op[w].stage = "insert" /\ op' = [op EXCEPT ![w].stage = "read"]
      BY <1>1, <1>3, <2>2, TwoTasks DEF SameOperations, Types, Operation
    <2> QED
      BY <2>1, <2>2 DEF Collides
  <1> QED
    BY <1>1, <1>2, <1>4, <1>5, Kept

LEMMA RestartKeeps == ASSUME RecordInv, BackendRestarts PROVE RowsInv' /\ TextInv'
  <1>1. RowsInv /\ TextInv
    BY DEF RecordInv, RowsInv
  <1>2. RowsInv' /\ Text(rows') = Text(rows)
    BY <1>1, RowsRestarted
  <1>3. /\ UNCHANGED <<view, holed>> /\ persister' = "dead" /\ buffer' = <<>>
        /\ chunk' = [v \in Tasks |-> <<>>]
    BY DEF BackendRestarts
  <1>4. Pending' = <<>>
    BY <1>2, <1>3, TwoTasks, PendingWillBe DEF RowsInv
  <1> QED
    BY <1>1, <1>2, <1>3, <1>4, TextDropped

LEMMA RecordStep == ASSUME RecordInv, [Next]_vars PROVE RecordInv'
  <1>1. RowsInv' /\ TextInv'
    <2>1. ASSUME NEW w \in Writers, Collides(w) PROVE RowsInv' /\ TextInv'
      BY <2>1, RaiseKeeps, ReadKeeps
    <2>2. ASSUME NEW w \in Writers, Fails(w) PROVE RowsInv' /\ TextInv'
      BY <2>2, RaiseKeeps DEF Fails
    <2> QED
      BY <2>1, <2>2, NoFrame, ToolFrameKeeps, AgentSaysKeeps, BubbleClosesKeeps, PersisterFlushedKeeps, FrameEnds,
         TimerFiresKeeps, TimerFlushedKeeps, InsertKeeps, ReadKeeps, RestartKeeps DEF Next
  <1>2. Types'
    BY TypesStep
  <1>3. NumbersInv'
    BY NumbersStep DEF RecordInv
  <1> QED
    BY <1>1, <1>2, <1>3 DEF RecordInv, RowsInv

LEMMA RecordInit == ASSUME Init PROVE RecordInv
  <1>1. Types /\ Texts
    BY InitTyped
  <1>2. /\ persister = "ready" /\ ~timer /\ rowOf = None /\ rows = <<>> /\ buffer = <<>> /\ numbers = {}
        /\ chunk["persister"] = <<>> /\ chunk["timer"] = <<>>
        /\ op["persister"].stage = "none" /\ op["timer"].stage = "none"
    BY TwoTasks DEF Init, Idle
  <1>3. NumbersInv
    <2>1. \A w \in Writers : op[w].stage # "insert"
      BY DEF Init, Idle
    <2>2. numbers = 1..0
      BY <1>2
    <2> QED
      BY <2>1, <2>2 DEF NumbersInv
  <1>4. BusyInv /\ TwoRows /\ OneChunk
    BY <1>2, TwoTasks DEF BusyInv, TwoRows, Inserting, OneChunk
  <1>5. TextInv
    <2>1. view.text = <<>>
      BY DEF Init
    <2>2. Text(rows) = <<>>
      BY <1>1, <1>2, TextOf DEF Texts
    <2>3. Pending = <<>>
      BY <1>1, <1>2, PendingIs
    <2>4. <<>> \in Seq(Nat) /\ <<>> \o <<>> = <<>>
      BY Concats
    <2> QED
      BY <2>1, <2>2, <2>3, <2>4 DEF TextInv
  <1> QED
    BY <1>1, <1>3, <1>4, <1>5 DEF RecordInv

-----------------------------------------------------------------------------
(* The theorems. *)

\* The invariant that the properties follow from.
THEOREM RecordInvariant == Spec => []RecordInv
  BY RecordInit, RecordStep, PTL DEF Spec

\* However many writers race for the next number, and however often an INSERT
\* collides or fails, the session's numbers have no gap (repos/message.py).
THEOREM NumbersHaveNoGap == Spec => []SeqsContiguous
  <1>1. RecordInv => SeqsContiguous
    <2> SUFFICES ASSUME RecordInv PROVE SeqsContiguous
      OBVIOUS
    <2>1. PICK n \in Nat : numbers = 1..n
      BY DEF RecordInv, NumbersInv
    <2>2. Cardinality(1..n) = n
      <3>1. Cardinality(1..n) = IF 1 > n THEN 0 ELSE n - 1 + 1
        BY FS_Interval
      <3> QED
        BY <3>1
    <2> QED
      BY <2>1, <2>2 DEF SeqsContiguous
  <1> QED
    BY <1>1, RecordInvariant, PTL

LEMMA Beginning ==
    ASSUME NEW s \in Seq(Nat), NEW t \in Seq(Nat) PROVE IsPrefix(s, s \o t)
  <1>1. Len(s \o t) = Len(s) + Len(t) /\ Len(s) \in Nat /\ Len(t) \in Nat
    BY ConcatProperties
  <1>2. SubSeq(s \o t, 1, Len(s)) = s
    BY SubSeqOfConcat1
  <1> QED
    BY <1>1, <1>2 DEF IsPrefix

\* Wherever persister or backend stop, whichever of the two flushes runs and
\* whatever the operations overlap: the stored text is the beginning of what the
\* browser was shown, unless a flush of the timer raised (streaming/debounce.py).
THEOREM TextHasNoHole == Spec => []StoredTextHasNoHole
  <1>1. RecordInv => StoredTextHasNoHole
    <2> SUFFICES ASSUME RecordInv, ~holed PROVE IsPrefix(Reloaded.text, view.text)
      BY DEF StoredTextHasNoHole
    <2> DEFINE x == Text(rows)  p == Pending
    <2>1. PICK rest \in Seq(Nat) : view.text = (x \o p) \o rest
      BY DEF RecordInv, TextInv
    <2>2. x \in Seq(Nat) /\ p \in Seq(Nat)
      BY TextIs, PendingIs DEF RecordInv, RowsInv
    <2>3. Reloaded.text = x
      BY DEF Reloaded, Text
    <2> HIDE DEF x, p
    <2>4. view.text = x \o (p \o rest) /\ p \o rest \in Seq(Nat)
      BY <2>1, <2>2, Associative, Concats
    <2> QED
      BY <2>2, <2>3, <2>4, Beginning
  <1> QED
    BY <1>1, RecordInvariant, PTL

-----------------------------------------------------------------------------
(* What a reload shows: the cards, the calls and the end of the message. *)

LiveInv == Waits /\ CardsInv /\ CallsInv /\ ClosedInv

\* The table keeps a call as the browser keeps its card, frame by frame.
LEMMA SameUpdates ==
    ASSUME Types, CardsInv, NEW t \in Calls \ early, NEW kind \in Kinds, MayFollow(kind, t),
           kind = "denied" => "call" \in emitted[t]
    PROVE  CardUpdated(view.calls[t], kind) = Updated(view.calls[t], kind)
  <1> DEFINE card == view.calls[t]
  <1>1. /\ card \in Call
        /\ "call" \in emitted[t] => card.state # "none" /\ card # Absent
        /\ "end" \notin emitted[t] => card.state # "done"
        /\ "result" \notin emitted[t] => card.result = FALSE
    BY DEF Types, CardsInv, Absent, Call
  <1> HIDE DEF card
  <1>2. CASE kind = "call" \/ kind = "args" \/ kind = "result"
    BY <1>2 DEF CardUpdated, Updated, CallStarted, ArgsAdded, ResultSet
  <1>3. CASE kind = "end"
    <2>1. card # Absent /\ card.state # "done" /\ card.state # "none"
      BY <1>1, <1>3 DEF MayFollow
    <2>2. card.state = "running" \/ card.state = "denied"
      BY <1>1, <2>1 DEF Call
    <2> QED
      <3>1. CardUpdated(card, kind) = IF card.state = "denied" THEN card ELSE [card EXCEPT !.state = "done"]
        BY <1>3, <2>1 DEF CardUpdated
      <3>2. Updated(card, kind) = CallDone(card)
        BY <1>3 DEF Updated
      <3> QED
        BY <2>2, <3>1, <3>2 DEF CallDone, card
  <1>4. CASE kind = "denied"
    <2>1. card # Absent /\ card.result = FALSE
      BY <1>1, <1>4 DEF MayFollow
    <2>2. [card EXCEPT !.state = "denied", !.result = FALSE] = [card EXCEPT !.state = "denied"]
      BY <1>1, <2>1 DEF Call
    <2> QED
      <3>1. CardUpdated(card, kind) = [card EXCEPT !.state = "denied", !.result = FALSE]
        BY <1>4 DEF CardUpdated, CardDenied
      <3>2. Updated(card, kind) = CallDenied(card)
        BY <1>4 DEF Updated
      <3> QED
        BY <2>1, <2>2, <3>1, <3>2 DEF CallDenied, card
  <1> QED
    BY <1>2, <1>3, <1>4 DEF Kinds

LEMMA CardsStep == ASSUME RecordInv, CardsInv, [Next]_vars PROVE CardsInv'
  <1>1. CASE \E t \in Calls, kind \in Kinds : ToolFrame(kind, t)
    <2>1. PICK t \in Calls, kind \in Kinds : ToolFrame(kind, t)
      BY <1>1
    <2> DEFINE card == view.calls[t]  new == CardUpdated(card, kind)
    <2>2. /\ MayFollow(kind, t)
          /\ emitted' = [emitted EXCEPT ![t] = @ \cup {kind}]
          /\ early' = IF kind = "denied" /\ "call" \notin emitted[t] THEN early \cup {t} ELSE early
          /\ view'.calls = [view.calls EXCEPT ![t] = new]
      BY <2>1 DEF ToolFrame, RecordInv, Types
    <2>3. /\ emitted' \in [Calls -> SUBSET Kinds] /\ emitted'[t] = emitted[t] \cup {kind}
          /\ \A u \in Calls : u # t => emitted'[u] = emitted[u]
      BY <2>2 DEF CardsInv
    <2>4. ASSUME t \notin early
          PROVE
          /\ card \in Call
          /\ "call" \notin emitted[t] => card = Absent
          /\ "call" \in emitted[t] => card.state # "none"
          /\ "end" \notin emitted[t] => card.state # "done"
          /\ "result" \notin emitted[t] => card.result = FALSE
      BY <2>4 DEF CardsInv, RecordInv, Types, Call
    <2>5. view'.calls[t] = new /\ \A u \in Calls : u # t => view'.calls[u] = view.calls[u]
      BY <2>2 DEF RecordInv, Types
    <2>6. ASSUME t \notin early'
          PROVE
          /\ "call" \in emitted'[t] /\ new.state # "none"
          /\ "end" \notin emitted'[t] => new.state # "done"
          /\ "result" \notin emitted'[t] => ~new.result
      <3>0. t \notin early /\ (kind = "denied" => "call" \in emitted[t])
        BY <2>2, <2>6
      <3> HIDE DEF card
      <3>1. CASE kind = "call"
        BY <2>2, <2>3, <2>4, <3>0, <3>1 DEF MayFollow, CardUpdated, Running, Absent
      <3>2. CASE kind = "args"
        BY <2>2, <2>3, <2>4, <3>0, <3>2 DEF MayFollow, CardUpdated, Call
      <3>3. CASE kind = "end"
        BY <2>2, <2>3, <2>4, <3>0, <3>3 DEF MayFollow, CardUpdated, Call
      <3>4. CASE kind = "result"
        BY <2>2, <2>3, <2>4, <3>0, <3>4 DEF MayFollow, CardUpdated, Call
      <3>5. CASE kind = "denied"
        BY <2>2, <2>3, <2>4, <3>0, <3>5 DEF MayFollow, CardUpdated, CardDenied, Call
      <3> QED
        BY <3>1, <3>2, <3>3, <3>4, <3>5 DEF Kinds
    <2> HIDE DEF new
    <2>7. early \subseteq early'
      BY <2>2
    <2> QED
      BY <2>3, <2>5, <2>6, <2>7 DEF CardsInv
  <1>2. CASE ~(\E t \in Calls, kind \in Kinds : ToolFrame(kind, t))
    <2>1. emitted' = emitted /\ early' = early
      BY <1>2 DEF Next, vars, agentVars, RunStarts, BubbleOpens, AgentSays, BubbleCloses, RunEnds, RunBreaks,
             PersisterTimesOut, PersisterFlushed, Finalized, CallWritten, TimerFires, TimerFlushed,
             Reads, Inserts, Collides, Fails, Raised, BackendRestarts
    <2>2. view'.calls = view.calls
      <3>1. CASE view' = view
        BY <3>1
      <3>2. CASE BubbleOpens \/ AgentSays \/ BubbleCloses
        BY <3>2 DEF BubbleOpens, AgentSays, BubbleCloses, RecordInv, Types
      <3> QED
        BY <1>2, <3>1, <3>2 DEF Next, vars, RunStarts, RunEnds, RunBreaks,
             PersisterTimesOut, PersisterFlushed, Finalized, CallWritten, TimerFires, TimerFlushed,
             Reads, Inserts, Collides, Fails, Raised, BackendRestarts
    <2> QED
      BY <2>1, <2>2 DEF CardsInv
  <1> QED
    BY <1>1, <1>2

LEMMA WaitsStep == ASSUME RecordInv, Waits, [Next]_vars PROVE Waits'
  <1> USE TwoTasks DEF Waits
  <1>1. RowsInv /\ op \in [Writers -> Operation]
    BY DEF RecordInv, RowsInv, Types
  <1>2. CASE RunStarts \/ BubbleOpens \/ RunEnds \/ RunBreaks \/ PersisterTimesOut \/ UNCHANGED vars
    BY <1>2 DEF RunStarts, BubbleOpens, RunEnds, RunBreaks, PersisterTimesOut, vars, debounceVars
  <1>3. CASE AgentSays
    BY <1>1, <1>3 DEF AgentSays, Buffers, Begins, LockFree
  <1>4. CASE BubbleCloses
    BY <1>1, <1>4 DEF BubbleCloses, EndFlushes, Begins, LockFree
  <1>5. CASE \E t \in Calls, kind \in Kinds : ToolFrame(kind, t)
    BY <1>1, <1>5 DEF ToolFrame, Begins, debounceVars
  <1>6. CASE PersisterFlushed \/ Finalized \/ CallWritten
    BY <1>1, <1>6 DEF PersisterFlushed, Finalized, CallWritten, Ready, debounceVars
  <1>7. CASE TimerFires
    BY <1>7 DEF TimerFires
  <1>8. Idle \in Operation /\ Idle.stage = "none"
    BY <1>1, RowTyped, Operations DEF RowsInv
  <1>9. CASE TimerFlushed
    <2>1. op["timer"].stage # "none" /\ op'["timer"].stage = "none" /\ buffer' = buffer
      BY <1>1, <1>8, <1>9 DEF TimerFlushed
    <2> QED
      BY <2>1
  <1>10. ASSUME NEW w \in Writers, op[w].stage # "none", Raised(w) PROVE Waits'
    <2>1. buffer' = buffer /\ timer' = (timer /\ w # "timer")
      BY <1>10 DEF Raised
    <2>2. op'["timer"].stage = "none" \/ op'["timer"] = op["timer"]
      BY <1>1, <1>8, <1>10 DEF Raised
    <2>3. CASE w = "timer"
      BY <1>10, <2>1, <2>2, <2>3
    <2>4. CASE w # "timer"
      <3>1. timer' = timer
        BY <2>1, <2>4 DEF RecordInv, Types
      <3> QED
        BY <2>1, <2>2, <3>1
    <2> QED
      BY <2>3, <2>4
  <1>11. ASSUME NEW w \in Writers, Reads(w) \/ Inserts(w) PROVE Waits'
    <2>1. buffer' = buffer /\ timer' = timer /\ op[w].stage # "none"
      BY <1>11 DEF Reads, Inserts, debounceVars
    <2>2. op'["timer"] = op["timer"] \/ w = "timer"
      BY <1>1, <1>11 DEF Reads, Inserts
    <2> QED
      BY <2>1, <2>2
  <1>12. ASSUME NEW w \in Writers, Collides(w) PROVE Waits'
    <2>1. CASE op' = [op EXCEPT ![w].stage = "read"] /\ UNCHANGED <<buffer, timer>>
      <3>1. op'["timer"] = op["timer"] \/ w = "timer"
        BY <1>1, <2>1
      <3>2. op[w].stage # "none"
        BY <1>12 DEF Collides
      <3> QED
        BY <2>1, <3>1, <3>2
    <2> QED
      BY <1>10, <1>12, <2>1 DEF Collides, debounceVars
  <1>13. CASE BackendRestarts
    BY <1>8, <1>13 DEF BackendRestarts
  <1> QED
    BY <1>2, <1>3, <1>4, <1>5, <1>6, <1>7, <1>9, <1>10, <1>11, <1>12, <1>13 DEF Next, Fails

LEMMA CallsKept ==
    ASSUME CallsInv, UNCHANGED <<calls, job, early>>, view'.calls = view.calls,
           \/ persister' = persister \/ persister' = "dead"
           \/ persister = "ready" /\ persister' = "over"
    PROVE  CallsInv'
  BY DEF CallsInv

LEMMA CallsStep == ASSUME RecordInv, CardsInv, CallsInv, [Next]_vars PROVE CallsInv'
  <1> USE DEF TextJobs
  <1>1. /\ op["persister"].stage # "none" => persister = "busy"
        /\ persister = "busy" => job[1] \in TextJobs \cup Kinds
        /\ persister = "over" => run = "over"
        /\ chunk["persister"] # <<>> => job[1] \in TextJobs
        /\ "text" \notin Kinds /\ "close" \notin Kinds
    BY DEF RecordInv, BusyInv, OneChunk, Kinds
  <1>2. CASE RunStarts \/ BubbleOpens \/ RunEnds \/ RunBreaks \/ PersisterTimesOut \/ UNCHANGED vars
    <2>1. UNCHANGED <<calls, job, early>> /\ view'.calls = view.calls
      BY <1>2 DEF RunStarts, BubbleOpens, RunEnds, RunBreaks, PersisterTimesOut, vars, agentVars, tableVars, RecordInv, Types
    <2>2. persister' = persister \/ persister' = "dead" \/ (persister = "ready" /\ persister' = "over")
      BY <1>2 DEF RunStarts, BubbleOpens, RunEnds, RunBreaks, Returns, PersisterTimesOut, vars
    <2> QED
      BY <2>1, <2>2, CallsKept
  <1>3. CASE AgentSays
    <2>1. UNCHANGED <<calls, early>> /\ view'.calls = view.calls
      BY <1>3 DEF AgentSays, agentVars, tableVars, RecordInv, Types
    <2>2. CASE Begins("text", None, OnRow) /\ persister = "ready"
      BY <1>1, <2>1, <2>2 DEF Begins, CallsInv
    <2>3. CASE UNCHANGED <<persister, job>>
      BY <2>1, <2>3, CallsKept
    <2> QED
      BY <1>3, <2>2, <2>3 DEF AgentSays, Buffers
  <1>4. CASE BubbleCloses
    <2>1. UNCHANGED <<calls, early>> /\ view'.calls = view.calls
      BY <1>4 DEF BubbleCloses, tableVars, RecordInv, Types
    <2>2. CASE persister = "ready"
      <3>1. persister' = "busy" /\ job' = <<"close", None>>
        BY <1>4, <2>2 DEF BubbleCloses, EndFlushes, Begins
      <3> QED
        BY <1>1, <2>1, <2>2, <3>1 DEF CallsInv
    <2>3. CASE persister # "ready"
      <3>1. UNCHANGED <<persister, job>>
        BY <1>4, <2>3 DEF BubbleCloses, EndFlushes
      <3> QED
        BY <2>1, <3>1, CallsKept
    <2> QED
      BY <2>2, <2>3
  <1>5. ASSUME NEW t \in Calls, NEW kind \in Kinds, ToolFrame(kind, t) PROVE CallsInv'
    <2>1. /\ calls' = calls /\ MayFollow(kind, t) /\ run = "open" /\ persister # "busy"
          /\ view'.calls = [view.calls EXCEPT ![t] = CardUpdated(view.calls[t], kind)]
      BY <1>5 DEF ToolFrame, tableVars, RecordInv, Types
    <2>2. /\ early' = IF kind = "denied" /\ "call" \notin emitted[t] THEN early \cup {t} ELSE early
          /\ \A u \in Calls : view'.calls[u] = IF u = t THEN CardUpdated(view.calls[t], kind) ELSE view.calls[u]
      BY <1>5, <2>1 DEF ToolFrame, RecordInv, Types
    <2>3. CASE persister = "ready"
      <3>1. persister' = "busy" /\ job' = <<kind, t>> /\ job'[1] = kind /\ job'[2] = t
        BY <1>5, <2>3 DEF ToolFrame, Begins
      <3>2. \A u \in Calls \ early : view.calls[u] = calls[u]
        BY <2>3 DEF CallsInv
      <3>3. ASSUME t \notin early' PROVE CardUpdated(view.calls[t], kind) = Updated(calls[t], kind)
        <4>1. t \notin early /\ (kind = "denied" => "call" \in emitted[t])
          BY <2>2, <3>3
        <4> QED
          BY <2>1, <3>2, <4>1, SameUpdates DEF RecordInv
      <3>4. ASSUME NEW u \in Calls \ early'
            PROVE  view'.calls[u] = IF job'[2] = u THEN Updated(calls'[u], job'[1]) ELSE calls'[u]
        <4>1. CASE u = t
          BY <2>1, <2>2, <3>1, <3>3, <4>1
        <4>2. CASE u # t
          <5>1. u \in Calls \ early
            BY <2>2
          <5> QED
            BY <2>1, <2>2, <3>1, <3>2, <4>2, <5>1
        <4> QED
          BY <4>1, <4>2
      <3> QED
        BY <2>1, <3>1, <3>4 DEF CallsInv
    <2>4. CASE persister = "dead"
      BY <1>5, <2>4 DEF ToolFrame, Begins, tableVars, CallsInv
    <2>5. persister # "over"
      BY <1>1, <2>1
    <2> QED
      BY <2>1, <2>3, <2>4, <2>5 DEF RecordInv, Types
  <1>6. CASE PersisterFlushed \/ Finalized
    <2>1. view' = view /\ UNCHANGED <<calls, early>> /\ persister = "busy" /\ job[1] \in TextJobs
      BY <1>1, <1>6 DEF PersisterFlushed, Finalized, agentVars
    <2>2. UNCHANGED <<persister, job>> \/ persister' = "ready"
      BY <1>6 DEF PersisterFlushed, Finalized, Ready
    <2> QED
      BY <1>1, <2>1, <2>2 DEF CallsInv
  <1>7. CASE CallWritten
    <2>1. /\ view' = view /\ persister = "busy" /\ job[1] \in Kinds /\ persister' = "ready"
          /\ calls' = [calls EXCEPT ![job[2]] = Updated(@, job[1])] /\ early' = early
      BY <1>1, <1>7 DEF CallWritten, Ready, agentVars
    <2>2. \A t \in DOMAIN calls : calls'[t] = IF t = job[2] THEN Updated(calls[t], job[1]) ELSE calls[t]
      BY <2>1
    <2>3. DOMAIN calls' = DOMAIN calls
      BY <2>1
    <2> QED
      BY <2>1, <2>2, <2>3 DEF CallsInv
  <1>8. CASE TimerFires \/ TimerFlushed
    <2>1. UNCHANGED <<calls, job, persister, view, early>>
      BY <1>8 DEF TimerFires, TimerFlushed, agentVars, tableVars
    <2> QED
      BY <2>1, CallsKept
  <1>9. ASSUME NEW w \in Writers, Reads(w) \/ Inserts(w) \/ Collides(w) \/ Fails(w) PROVE CallsInv'
    <2>1. UNCHANGED <<calls, job, view, early>> /\ (persister' = persister \/ persister' = "dead")
      BY <1>9 DEF Reads, Inserts, Collides, Fails, Raised, agentVars, tableVars
    <2> QED
      BY <2>1, CallsKept
  <1>10. CASE BackendRestarts
    BY <1>10 DEF BackendRestarts, CallsInv
  <1> QED
    BY <1>2, <1>3, <1>4, <1>5, <1>6, <1>7, <1>8, <1>9, <1>10 DEF Next

\* A flush finalizes nothing.
LEMMA FlushKeepsEnds ==
    ASSUME RowsInv, NEW w \in Tasks, Stored(w)
    PROVE  \A j \in 1..Len(rows) : rows'[j].finalized = rows[j].finalized
  <1> TAKE j \in 1..Len(rows)
  <1>1. rows[j] \in Row /\ DOMAIN rows = 1..Len(rows)
    BY DEF RowsInv, Texts
  <1>2. CASE j = op[w].row
    BY <1>1, <1>2 DEF Stored, Row
  <1>3. CASE j # op[w].row
    BY <1>1, <1>3 DEF Stored
  <1> QED
    BY <1>2, <1>3

\* A step that leaves rows and their ends alone.
LEMMA ClosedKept ==
    ASSUME ClosedInv, UNCHANGED <<rows, rowOf, job>>, view'.finalized = view.finalized,
           view.finalized => run' \in {"closing", "over"} /\ (timer' => timer),
           op'["persister"].row = op["persister"].row,
           op'["persister"].stage = "write" => op["persister"].stage = "write",
           \/ persister' = persister \/ persister' = "dead"
           \/ persister = "ready" /\ persister' = "over"
    PROVE  ClosedInv'
  <1>1. Len(rows') = Len(rows) /\ rows'[1] = rows[1]
    OBVIOUS
  <1> QED
    BY <1>1 DEF ClosedInv

LEMMA ClosedStep == ASSUME RecordInv, ClosedInv, [Next]_vars PROVE ClosedInv'
  <1> USE TwoTasks DEF TextJobs
  <1>1. /\ op["persister"].stage # "none" => persister = "busy"
        /\ persister = "busy" => job[1] \in TextJobs \cup Kinds
        /\ persister = "over" => run = "over"
        /\ chunk["persister"] # <<>> => job[1] \in TextJobs
        /\ "text" \notin Kinds /\ "close" \notin Kinds
        /\ op["timer"].stage # "none" => timer
        /\ RowsInv /\ Types /\ op \in [Writers -> Operation] /\ rows \in Seq(Row)
        /\ persister # "dead" /\ rowOf = None => rows = <<>>
        /\ rowOf # None => rowOf = Len(rows)
    BY DEF RecordInv, RowsInv, BusyInv, OneChunk, TwoRows, Kinds, Types, Texts
  <1>2. /\ Idle \in Operation /\ Idle.stage = "none" /\ Write \in Operation /\ Write.stage = "write"
        /\ OnRow \in Operation /\ (OnRow.stage = "write" => OnRow.row = rowOf)
        /\ [Write EXCEPT !.row = rowOf] \in Operation /\ [Write EXCEPT !.row = rowOf].row = rowOf
    <2>1. rowOf \in Nat \cup {None}
      BY <1>1, RowTyped DEF RowsInv
    <2> QED
      BY <1>1, <2>1, OnRowIs, Operations
  <1>3. CASE RunStarts \/ BubbleOpens \/ RunEnds \/ RunBreaks \/ PersisterTimesOut \/ UNCHANGED vars
    <2>1. UNCHANGED <<rows, rowOf, job, op, timer>>
      BY <1>3 DEF RunStarts, BubbleOpens, RunEnds, RunBreaks, PersisterTimesOut, vars, tableVars, debounceVars
    <2>2. view'.finalized = view.finalized
      BY <1>1, <1>3 DEF RunStarts, BubbleOpens, RunEnds, RunBreaks, PersisterTimesOut, vars, Types, ClosedInv
    <2>3. view.finalized => run' \in {"closing", "over"}
      BY <1>3 DEF RunStarts, BubbleOpens, RunEnds, RunBreaks, PersisterTimesOut, vars, agentVars, ClosedInv
    <2>4. persister' = persister \/ persister' = "dead" \/ (persister = "ready" /\ persister' = "over")
      BY <1>3 DEF RunStarts, BubbleOpens, RunEnds, RunBreaks, Returns, PersisterTimesOut, vars
    <2> QED
      BY <2>1, <2>2, <2>3, <2>4, ClosedKept
  <1>4. CASE AgentSays
    <2>1. /\ run = "open" /\ view'.finalized = view.finalized /\ UNCHANGED <<rows, rowOf>> /\ ~view.finalized
      BY <1>1, <1>4 DEF AgentSays, tableVars, Types, ClosedInv
    <2>2. CASE Begins("text", None, OnRow) /\ persister = "ready"
      <3>1. persister' = "busy" /\ job'[1] = "text"
        BY <2>2 DEF Begins
      <3>2. Len(rows') = Len(rows) /\ rows'[1] = rows[1]
        BY <2>1
      <3> QED
        BY <2>1, <2>2, <3>1, <3>2 DEF ClosedInv
    <2>3. CASE UNCHANGED <<persister, job, op>>
      BY <2>1, <2>3, ClosedKept
    <2> QED
      BY <1>4, <2>2, <2>3 DEF AgentSays, Buffers
  <1>5. CASE BubbleCloses
    <2>1. /\ run = "open" /\ run' = "closing" /\ view'.finalized = TRUE /\ persister # "busy"
          /\ UNCHANGED <<rows, rowOf>> /\ ~view.finalized /\ EndFlushes
      BY <1>1, <1>5 DEF BubbleCloses, tableVars, Types, ClosedInv
    <2>2. CASE persister = "ready"
      <3> DEFINE operation == IF buffer = <<>> THEN [Write EXCEPT !.row = rowOf] ELSE OnRow
      <3>1. /\ persister' = "busy" /\ job'[1] = "close" /\ timer' = FALSE
            /\ op' = [op EXCEPT !["persister"] = operation]
        BY <2>1, <2>2 DEF EndFlushes, Begins
      <3>2. operation \in Operation /\ (operation.stage = "write" => operation.row = rowOf)
        BY <1>2
      <3> HIDE DEF operation
      <3>3. op'["persister"] = operation
        BY <1>1, <3>1, <3>2, OperationSet
      <3> QED
        BY <2>1, <3>1, <3>2, <3>3 DEF ClosedInv
    <2>3. CASE persister = "dead"
      BY <2>1, <2>3 DEF EndFlushes, ClosedInv
    <2> QED
      BY <1>1, <2>1, <2>2, <2>3 DEF Types
  <1>6. ASSUME NEW t \in Calls, NEW kind \in Kinds, ToolFrame(kind, t) PROVE ClosedInv'
    <2>1. /\ run = "open" /\ view'.finalized = view.finalized /\ UNCHANGED <<rows, rowOf, timer, run>> /\ ~view.finalized
      BY <1>1, <1>6 DEF ToolFrame, tableVars, debounceVars, Types, ClosedInv
    <2>2. CASE persister = "ready"
      <3>1. persister' = "busy" /\ job'[1] = kind /\ kind # "close"
        BY <1>1, <1>6, <2>2 DEF ToolFrame, Begins
      <3>2. Len(rows') = Len(rows) /\ rows'[1] = rows[1]
        BY <2>1
      <3> QED
        BY <2>1, <2>2, <3>1, <3>2 DEF ClosedInv
    <2>3. CASE persister # "ready"
      <3>1. UNCHANGED <<persister, job, op>>
        BY <1>6, <2>3 DEF ToolFrame, Begins
      <3> QED
        BY <2>1, <3>1, ClosedKept
    <2> QED
      BY <2>2, <2>3
  <1>7. CASE PersisterFlushed
    <2>1. /\ UNCHANGED <<view, run, timer, rowOf>> /\ Stored("persister") /\ op["persister"].stage = "write"
          /\ chunk["persister"] # <<>> /\ job[1] \in TextJobs
          /\ IF job[1] = "close" THEN UNCHANGED <<persister, job, op>> ELSE Ready
      BY <1>1, <1>7 DEF PersisterFlushed, agentVars
    <2>2. Len(rows') = Len(rows) /\ \A j \in 1..Len(rows) : rows'[j].finalized = rows[j].finalized
      BY <1>1, <2>1, FlushStores, FlushKeepsEnds
    <2>3. Len(rows) = 1 => rows'[1].finalized = rows[1].finalized
      BY <2>2
    <2>4. CASE job[1] = "close"
      BY <1>1, <2>1, <2>4 DEF ClosedInv
    <2>5. CASE job[1] # "close"
      <3>1. persister' = "ready" /\ persister = "busy"
        BY <1>1, <2>1, <2>5 DEF Ready
      <3> QED
        BY <2>1, <2>2, <2>3, <2>5, <3>1 DEF ClosedInv
    <2> QED
      BY <2>4, <2>5
  <1>8. CASE Finalized
    <2>1. /\ UNCHANGED <<view, run, timer, rowOf>> /\ persister = "busy" /\ job[1] = "close" /\ persister' = "ready"
          /\ view.finalized /\ op["persister"].row = rowOf
      BY <1>1, <1>8 DEF Finalized, Ready, agentVars, debounceVars, ClosedInv
    <2>2. ASSUME Len(rows') = 1 PROVE rows'[1].finalized = TRUE
      <3>1. CASE rowOf = None
        <4>1. rows' = <<>>
          BY <1>1, <1>8, <2>1, <3>1 DEF Finalized
        <4> QED
          BY <2>2, <4>1
      <3>2. CASE rowOf # None
        <4>1. rows' = [rows EXCEPT ![rowOf].finalized = TRUE]
          BY <1>8, <2>1, <3>2 DEF Finalized
        <4>2. rows' = FinalizedAt(rows, rowOf)
          BY <4>1 DEF FinalizedAt
        <4>3. Len(rows') = Len(rows)
          BY <1>1, <4>2, RowFinalized
        <4>4. Len(rows) = 1
          BY <2>2, <4>3
        <4>5. rowOf = 1
          BY <1>1, <3>2, <4>4
        <4>6. DOMAIN rows = 1 .. 1 /\ 1 \in DOMAIN rows
          BY <1>1, <4>4
        <4>7. rows[1] \in Row
          BY <1>1, <4>6
        <4>8. rows'[1] = [rows[1] EXCEPT !.finalized = TRUE]
          BY <4>1, <4>5, <4>6
        <4> QED
          BY <4>7, <4>8 DEF Row
      <3> QED
        BY <3>1, <3>2
    <2> QED
      BY <2>1, <2>2 DEF ClosedInv, Types
  <1>9. CASE CallWritten
    <2>1. /\ UNCHANGED <<view, run, timer, rowOf, rows>> /\ persister = "busy" /\ job[1] # "close" /\ persister' = "ready"
      BY <1>1, <1>9 DEF CallWritten, Ready, agentVars, debounceVars
    <2> QED
      BY <2>1 DEF ClosedInv
  <1>10. CASE TimerFires
    <2>1. UNCHANGED <<rows, rowOf, job, view, run, persister>> /\ (timer' => timer)
      BY <1>10 DEF TimerFires, agentVars, tableVars
    <2>2. op'["persister"] = op["persister"]
      BY <1>1, <1>10 DEF TimerFires
    <2> QED
      BY <2>1, <2>2, ClosedKept DEF ClosedInv
  <1>11. CASE TimerFlushed
    <2>1. UNCHANGED <<rowOf, job, view, run, persister>> /\ timer' = FALSE /\ Stored("timer") /\ op["timer"].stage = "write"
      BY <1>11 DEF TimerFlushed, agentVars
    <2>2. op'["persister"] = op["persister"]
      BY <1>1, <1>11 DEF TimerFlushed
    <2>3. chunk["timer"] # <<>>
      BY <2>1 DEF RecordInv, OneChunk
    <2>4. Len(rows') = Len(rows) /\ \A j \in 1..Len(rows) : rows'[j].finalized = rows[j].finalized
      BY <1>1, <2>1, <2>3, FlushStores, FlushKeepsEnds
    <2>5. Len(rows) = 1 => rows'[1].finalized = rows[1].finalized
      BY <2>4
    <2> QED
      BY <2>1, <2>2, <2>4, <2>5 DEF ClosedInv
  <1>12. ASSUME NEW w \in Writers, Raised(w) PROVE ClosedInv'
    <2>1. UNCHANGED <<rows, rowOf, job, view, run>> /\ (timer' => timer)
      BY <1>12 DEF Raised, agentVars, tableVars
    <2>2. CASE w = "persister"
      BY <1>12, <2>1, <2>2 DEF Raised, ClosedInv
    <2>3. CASE w # "persister"
      <3>1. op'["persister"] = op["persister"] /\ persister' = persister
        BY <1>1, <1>12, <2>3 DEF Raised
      <3> QED
        BY <2>1, <3>1, ClosedKept DEF ClosedInv
    <2> QED
      BY <2>2, <2>3
  <1>13. ASSUME NEW w \in Writers, Reads(w) \/ (Collides(w) /\ ~Raised(w)) PROVE ClosedInv'
    <2>1. UNCHANGED <<rows, rowOf, job, view, run, persister, timer>>
      BY <1>13 DEF Reads, Collides, agentVars, tableVars, debounceVars
    <2>2. op[w] \in Operation
      BY <1>1
    <2>3. /\ op'["persister"].row = op["persister"].row
          /\ op'["persister"].stage = "write" => op["persister"].stage = "write"
      <3>1. CASE Reads(w)
        BY <1>1, <2>2, <3>1 DEF Reads, Operation
      <3>2. CASE op' = [op EXCEPT ![w].stage = "read"]
        BY <1>1, <2>2, <3>2 DEF Operation
      <3> QED
        BY <1>13, <3>1, <3>2 DEF Collides
    <2> QED
      BY <2>1, <2>3, ClosedKept DEF ClosedInv
  <1>14. ASSUME NEW w \in Writers, Inserts(w) PROVE ClosedInv'
    <2>1. UNCHANGED <<job, view, run, persister, timer>> /\ op[w].stage = "insert"
      BY <1>14 DEF Inserts, agentVars, debounceVars
    <2>2. CASE w \in Tasks
      <3> DEFINE row == [text |-> <<>>, finalized |-> FALSE]
      <3>1. row \in Row /\ row.finalized = FALSE
        BY DEF Row
      <3>2. /\ rows' = Append(rows, row) /\ rowOf' = Len(rows')
            /\ op' = [op EXCEPT ![w] = [Write EXCEPT !.row = Len(rows')]]
        BY <1>14, <2>2 DEF Inserts
      <3> HIDE DEF row
      <3>3. Len(rows') = Len(rows) + 1 /\ rows'[Len(rows) + 1] = row /\ Len(rows) \in Nat
        BY <1>1, <3>1, <3>2, AppendProperties
      <3>4. Len(rows') = 1 => rows'[1].finalized = FALSE
        BY <3>1, <3>3
      <3>5. w = "persister" => op'["persister"].row = rowOf'
        <4>1. Len(rows') \in Nat \cup {None}
          BY <3>3
        <4> DEFINE o == [Write EXCEPT !.row = Len(rows')]
        <4>2. o \in Operation /\ o.row = Len(rows')
          BY <4>1, Operations
        <4> HIDE DEF o
        <4>3. op' = [op EXCEPT ![w] = o]
          BY <3>2 DEF o
        <4> QED
          BY <1>1, <3>2, <4>2, <4>3
      <3>6. w # "persister" => timer /\ op'["persister"] = op["persister"]
        BY <1>1, <2>1, <2>2, <3>2
      <3>7. CASE w = "persister"
        BY <1>1, <2>1, <3>4, <3>5, <3>7 DEF ClosedInv, Types
      <3>8. CASE w # "persister"
        BY <1>1, <2>1, <3>4, <3>6, <3>8 DEF ClosedInv, Types
      <3> QED
        BY <3>7, <3>8
    <2>3. CASE w \notin Tasks
      <3>1. UNCHANGED <<rows, rowOf>> /\ op'["persister"] = op["persister"]
        BY <1>1, <1>14, <2>3 DEF Inserts
      <3> QED
        BY <2>1, <3>1, ClosedKept DEF ClosedInv
    <2> QED
      BY <2>2, <2>3
  <1>15. CASE BackendRestarts
    BY <1>15 DEF BackendRestarts, ClosedInv
  <1>16. ASSUME NEW w \in Writers, Collides(w) \/ Fails(w) PROVE ClosedInv'
    BY <1>12, <1>13, <1>16 DEF Fails
  <1> QED
    BY <1>3, <1>4, <1>5, <1>6, <1>7, <1>8, <1>9, <1>10, <1>11, <1>13, <1>14, <1>15, <1>16 DEF Next

LEMMA LiveInit == ASSUME Init PROVE LiveInv
  <1>1. Waits
    BY TwoTasks DEF Init, Waits, Idle
  <1>2. CardsInv
    BY DEF Init, CardsInv, Absent
  <1>3. CallsInv
    BY DEF Init, CallsInv
  <1>4. ClosedInv
    BY DEF Init, ClosedInv
  <1> QED
    BY <1>1, <1>2, <1>3, <1>4 DEF LiveInv

\* Once the persister has seen the end of the run, and if no flush of the timer raised
\* and the message is not split over two rows, a reload shows what was shown live: the
\* text, the cards of the tool calls that were not denied before their start, and
\* whether the message is complete (reducer.ts, _persist_events).
THEOREM ReloadShowsLive == Spec => []ReloadMatchesLive
  <1>1. RecordInv /\ LiveInv => ReloadMatchesLive
    <2> SUFFICES ASSUME RecordInv, LiveInv, persister = "over", ~timer, ~holed, Len(rows) < 2
                 PROVE  /\ Reloaded.text = view.text
                        /\ \A t \in Calls \ early : Reloaded.calls[t] = view.calls[t]
                        /\ rows # <<>> => Reloaded.finalized = view.finalized
      BY DEF ReloadMatchesLive
    <2>1. Reloaded.text = Text(rows) /\ Reloaded.calls = calls /\ Reloaded.finalized = \A i \in DOMAIN rows : rows[i].finalized
      BY DEF Reloaded, Text
    <2>2. op["persister"].stage = "none" /\ op["timer"].stage = "none"
      BY DEF RecordInv, BusyInv, TwoRows
    <2>3. chunk["persister"] = <<>> /\ chunk["timer"] = <<>> /\ buffer = <<>>
      BY <2>2 DEF RecordInv, OneChunk, LiveInv, Waits
    <2>4. Pending = <<>>
      BY <2>3, PendingIs DEF RecordInv
    <2>5. view.text = Text(rows) \o <<>> \o <<>>
      BY <2>4 DEF RecordInv, TextInv
    <2>6. Reloaded.text = view.text
      <3>1. Text(rows) \in Seq(Nat)
        BY TextIs DEF RecordInv, RowsInv
      <3>2. Text(rows) \o <<>> = Text(rows)
        BY <3>1, Concats
      <3> QED
        BY <2>1, <2>5, <3>2
    <2>7. \A t \in Calls \ early : Reloaded.calls[t] = view.calls[t]
      BY <2>1 DEF LiveInv, CallsInv
    <2>8. ASSUME rows # <<>> PROVE Reloaded.finalized = view.finalized
      <3>1. rows \in Seq(Row) /\ Len(rows) \in Nat \ {0}
        BY <2>8, EmptySeq DEF RecordInv, Texts
      <3>0. Len(rows) = 1
        BY <3>1
      <3>4. DOMAIN rows = 1 .. 1
        BY <3>0, <3>1
      <3>5. DOMAIN rows = {1}
        BY <3>4
      <3>6. rows[1] \in Row
        BY <3>1, <3>5
      <3>2. Len(rows) = 1 /\ DOMAIN rows = {1} /\ rows[1] \in Row
        BY <3>0, <3>5, <3>6
      <3>3. rows[1].finalized = view.finalized /\ rows[1].finalized \in BOOLEAN
        BY <3>2 DEF LiveInv, ClosedInv, Row
      <3> QED
        BY <2>1, <3>2, <3>3
    <2> QED
      BY <2>6, <2>7, <2>8
  <1>2. RecordInv /\ LiveInv /\ [Next]_vars => LiveInv'
    BY WaitsStep, CardsStep, CallsStep, ClosedStep DEF LiveInv
  <1> QED
    BY <1>1, <1>2, LiveInit, RecordInvariant, PTL DEF Spec
=============================================================================
