----------------------- MODULE EventsAndTools_proofs ------------------------
(***************************************************************************)
(* What an operation leans on: its event log (EventStore), for any number  *)
(* of threads, readers, events, failed writes and restarts and any page    *)
(* size, and the phase of its model and tools (ToolLoop), for any tools,   *)
(* limits and number of calls.  The two share nothing.                     *)
(***************************************************************************)
EXTENDS EventStore, ToolLoop, SequenceTheorems, FiniteSetTheorems, TLAPS

(* The event log. *)
(* What append does under the lock. *)
Writing(t) == app[t].pc \in { "begun", "part", "done" }

LockIsHeld == \A t \in Threads : Writing(t) => lock = t

PayloadIsGiven == \A t \in Threads : app[t].pc # "idle" => app[t].payload \in Payloads

(* The number of an append is its own: no other append has it, and no line *)
(* before its first byte arrived; from then on the last line is its own.   *)
Numbered ==
  /\ \A t \in Threads : app[t].pc # "idle" => app[t].id \in 1 .. begun
  /\ \A t, u \in Threads :
        app[t].pc # "idle" /\ app[u].pc # "idle" /\ app[t].id = app[u].id => t = u
  /\ \A i \in 1 .. Len(file) : file[i].id \in 1 .. begun
  /\ \A a \in acked : a.id \in 1 .. begun
  /\ \A t \in Threads : \A i \in 1 .. Len(file) :
        app[t].pc \in { "wait", "begun" } => file[i].id # app[t].id
  /\ \A t \in Threads : app[t].pc \in { "part", "done" } =>
        /\ file # << >>
        /\ file[Len(file)].id = app[t].id
        /\ file[Len(file)].seq = app[t].seq
        /\ app[t].pc = "part" <=> ~ file[Len(file)].ended

(* The counter is ahead of whatever can be read, and an append under the   *)
(* lock has the number before it.                                          *)
CounterIsAhead ==
  /\ sequence # 0 => \A i \in Events : file[i].seq < sequence
  /\ \A t \in Threads : Writing(t) => app[t].seq > 0 /\ sequence = app[t].seq + 1
  /\ \A t \in Threads : app[t].pc = "begun" => \A i \in Events : file[i].seq < app[t].seq
  /\ \A t \in Threads : Writing(t) =>
        \A i \in Events : i # Len(file) => file[i].seq < app[t].seq

IInv == StoreTypeOK /\ LockIsHeld /\ PayloadIsGiven /\ Numbered /\ CounterIsAhead /\ SequencesIncrease

(* Without a failed write or a restart lines are whole: only an append     *)
(* under way leaves one torn, and what it returns can be read.             *)
Whole(f, id) ==
  \E i \in 1 .. Len(f) : f[i].id = id /\ f[i].whole /\ f[i].ended

LinesAreWhole ==
  failures = 0 /\ crashes = 0 =>
    /\ \A i \in 1 .. Len(file) : file[i].pure /\ (file[i].cut => ~ file[i].ended)
    /\ \A i \in 1 .. Len(file) :
         ~ file[i].ended => i = Len(file) /\ \E t \in Threads : app[t].pc = "part"
    /\ \A t \in Threads : app[t].pc = "done" /\ app[t].payload = "plain" => Whole(file, app[t].id)
    /\ \A a \in acked : a.payload = "plain" => Whole(file, a.id)

(* In the first life of the process no cursor is ahead of the counter, or  *)
(* of the append under the lock unless its reader has that very event.     *)
CursorsFollow ==
  crashes = 0 =>
    /\ sequence = 0 => file = << >>
    /\ \A r \in Readers : IF sequence = 0 THEN cursor[r] = 0 ELSE cursor[r] < sequence
    /\ \A t \in Threads, r \in Readers :
         /\ app[t].pc = "begun" => cursor[r] < app[t].seq
         /\ Writing(t) => cursor[r] < app[t].seq \/ app[t].id \in got[r]

------------------------------------------------------------------------------
(* Lemmas about the operators *)

(* A bounded nonempty set of numbers has its maximum.                      *)
LEMMA MaxIsGreatest ==
  ASSUME NEW n \in Nat, NEW S, S \subseteq 1 .. n, S # {}
  PROVE  Max(S) \in S /\ \A y \in S : y <= Max(S)
<1> DEFINE T == { n - x : x \in S }
<1>1. T \subseteq Nat /\ T # {}
  <2>1. \A x \in S : x \in Int /\ x <= n
    OBVIOUS
  <2>2. \A x \in S : n - x \in Nat
    BY <2>1
  <2> QED
    BY <2>2
<1>2. PICK k \in T : \A y \in T : ~ (<< y, k >> \in OpToRel(<, Nat))
  BY <1>1, WFMin, NatLessThanWellFounded, Zenon
<1>3. \A y \in T : ~ (y < k)
  BY <1>1, <1>2, Zenon DEF OpToRel
<1>4. PICK m \in S : k = n - m
  BY <1>2
<1>5. \A y \in S : m >= y
  <2> TAKE y \in S
  <2>1. ~ (n - y < k)
    BY <1>3
  <2> QED
    BY <1>4, <2>1
<1>6. Max(S) \in S /\ \A y \in S : Max(S) >= y
  BY <1>5 DEF Max
<1> QED
  BY <1>6

LEMMA EventsAreLines ==
  ASSUME StoreTypeOK
  PROVE  /\ file \in Seq(Line) /\ Len(file) \in Nat
         /\ Events \subseteq 1 .. Len(file)
         /\ \A i \in 1 .. Len(file) :
              file[i] \in Line /\ file[i].seq \in Nat \ { 0 } /\ file[i].id \in Nat
<1>1. file \in Seq(Line) /\ Len(file) \in Nat
  BY DEF StoreTypeOK
<1>2. \A i \in 1 .. Len(file) : file[i] \in Line
  BY <1>1
<1> QED
  BY <1>1, <1>2, EventStoreAssumption DEF Events, Line

(* The next number is greater than that of every event that can be read.   *)
LEMMA NextSequenceIsAhead ==
  ASSUME IInv
  PROVE  /\ NextSequence \in Nat \ { 0 }
         /\ \A i \in Events : file[i].seq < NextSequence
         /\ file = << >> /\ sequence = 0 => NextSequence = 1
<1>1. StoreTypeOK /\ CounterIsAhead /\ SequencesIncrease /\ sequence \in Nat
  BY DEF IInv, StoreTypeOK
<1>2. CASE sequence # 0
  BY <1>1, <1>2 DEF NextSequence, CounterIsAhead
<1>3. CASE sequence = 0 /\ Events = {}
  BY <1>3 DEF NextSequence
<1>4. CASE sequence = 0 /\ Events # {}
  <2> DEFINE m == Max(Events)
  <2>1. m \in Events /\ \A i \in Events : i <= m
    BY <1>1, <1>4, EventsAreLines, MaxIsGreatest
  <2>2. NextSequence = file[m].seq + 1
    BY <1>4 DEF NextSequence
  <2> HIDE DEF m
  <2>3. m \in 1 .. Len(file) /\ file[m].seq \in Nat \ { 0 }
    BY <1>1, <2>1, EventsAreLines
  <2>4. ASSUME NEW i \in Events
        PROVE  file[i].seq < NextSequence
    <3>1. i <= m /\ i \in Nat /\ m \in Nat /\ file[i].seq \in Nat
      BY <1>1, <2>1, <2>3, EventsAreLines
    <3>2. CASE i = m
      BY <2>2, <2>3, <3>2
    <3>3. CASE i < m
      BY <1>1, <2>1, <2>2, <2>3, <3>1, <3>3 DEF SequencesIncrease
    <3> QED
      BY <3>1, <3>2, <3>3
  <2> QED
    BY <1>1, <1>4, <2>2, <2>3, <2>4, EventsAreLines DEF Events
<1> QED
  BY <1>2, <1>3, <1>4

(* Bytes that arrive change the last line only, or are a new one; a line   *)
(* that has ended is not touched.                                          *)
LEMMA ArriveAtTheEnd ==
  ASSUME file \in Seq(Line), NEW line \in Line
  PROVE  LET g == Arrive(line) IN
         /\ g \in Seq(Line) /\ Len(g) \in Nat \ { 0 }
         /\ \A i \in 1 .. Len(g) : i # Len(g) => i \in 1 .. Len(file) /\ g[i] = file[i]
         /\ \A i \in 1 .. Len(file) :
              file[i].ended => i \in 1 .. Len(g) /\ i # Len(g)
         /\ file # << >> /\ ~ file[Len(file)].ended => Len(g) = Len(file)
         /\ g[Len(g)].id = line.id /\ g[Len(g)].seq = line.seq
         /\ g[Len(g)].whole = line.whole /\ g[Len(g)].ended = line.ended
         /\ line.pure /\ (file # << >> /\ ~ file[Len(file)].ended
                            => file[Len(file)].pure /\ file[Len(file)].id = line.id)
              => g[Len(g)].pure /\ g[Len(g)].cut = line.cut
<1> DEFINE g == Arrive(line)
<1>1. Len(file) \in Nat /\ Last(file) = file[Len(file)]
  BY DEF Last
<1>2. CASE file # << >> /\ ~ file[Len(file)].ended
  <2> DEFINE x == [line EXCEPT
                     !.pure = file[Len(file)].pure /\ file[Len(file)].id = line.id,
                     !.cut  = @ \/ (file[Len(file)].cut /\ file[Len(file)].id # line.id)]
  <2>1. g = [file EXCEPT ![Len(file)] = x]
    BY <1>1, <1>2 DEF Arrive
  <2>2. Len(file) \in 1 .. Len(file)
    BY <1>1, <1>2, EmptySeq
  <2>3. file[Len(file)] \in Line
    BY <2>2
  <2>4. /\ x.pure = (file[Len(file)].pure /\ file[Len(file)].id = line.id)
        /\ x.id = line.id /\ x.seq = line.seq /\ x.whole = line.whole
        /\ x.ended = line.ended /\ x.pure \in BOOLEAN /\ x.cut \in BOOLEAN
        /\ file[Len(file)].id = line.id => x.cut = line.cut
    BY <2>3 DEF Line
  <2>5. x \in Line
    BY <2>3 DEF Line
  <2> HIDE DEF x
  <2>6. /\ g \in Seq(Line) /\ Len(g) = Len(file)
        /\ g[Len(g)] = x
        /\ \A i \in 1 .. Len(file) : i # Len(file) => g[i] = file[i]
    BY <2>1, <2>2, <2>5
  <2> HIDE DEF g
  <2>7. Len(g) \in Nat \ { 0 }
    BY <1>1, <2>2, <2>6
  <2>8. /\ \A i \in 1 .. Len(g) : i # Len(g) => i \in 1 .. Len(file) /\ g[i] = file[i]
        /\ \A i \in 1 .. Len(file) :
             file[i].ended => i \in 1 .. Len(g) /\ i # Len(g)
    BY <1>2, <2>6
  <2>9. /\ g[Len(g)].id = line.id /\ g[Len(g)].seq = line.seq
        /\ g[Len(g)].whole = line.whole /\ g[Len(g)].ended = line.ended
        /\ (file[Len(file)].pure /\ file[Len(file)].id = line.id)
             => g[Len(g)].pure /\ g[Len(g)].cut = line.cut
    BY <2>4, <2>6
  <2> QED
    BY <1>2, <2>6, <2>7, <2>8, <2>9 DEF g
<1>3. CASE ~ (file # << >> /\ ~ file[Len(file)].ended)
  <2>1. g = Append(file, line)
    BY <1>1, <1>3 DEF Arrive
  <2>2. /\ g \in Seq(Line) /\ Len(g) = Len(file) + 1
        /\ g[Len(g)] = line
        /\ \A i \in 1 .. Len(file) : g[i] = file[i]
    BY <2>1
  <2> HIDE DEF g
  <2> QED
    BY <1>1, <1>3, <2>2 DEF g
<1> QED
  BY <1>2, <1>3

------------------------------------------------------------------------------
(* Each action keeps the invariant *)

LEMMA InitInv == StoreInit => IInv
<1> SUFFICES ASSUME StoreInit PROVE IInv
  OBVIOUS
<1>1. StoreTypeOK
  BY EventStoreAssumption DEF StoreInit, StoreTypeOK, Appending, Idle
<1>2. \A t \in Threads : app[t].pc = "idle"
  BY DEF StoreInit, Idle
<1>3. LockIsHeld /\ PayloadIsGiven /\ Numbered /\ CounterIsAhead /\ SequencesIncrease
  BY <1>2 DEF StoreInit, LockIsHeld, PayloadIsGiven, Numbered, CounterIsAhead, SequencesIncrease, Writing, Events
<1> QED
  BY <1>1, <1>3 DEF IInv

(* The thread that moves is the one under the lock. *)
LEMMA OneWriter ==
  ASSUME IInv, NEW t \in Threads, Writing(t)
  PROVE  \A u \in Threads : u # t => ~ Writing(u)
  BY DEF IInv, LockIsHeld

LEMMA CallInv ==
  ASSUME IInv, NEW t \in Threads, NEW p \in Payloads, Call(t, p)
  PROVE  IInv'
<1>1. /\ StoreTypeOK /\ LockIsHeld /\ PayloadIsGiven
      /\ Numbered /\ CounterIsAhead /\ SequencesIncrease
  BY DEF IInv
<1>2. /\ app[t].pc = "idle" /\ begun < MaxEvents /\ begun' = begun + 1
      /\ begun \in Nat /\ begun' \in 0 .. MaxEvents /\ MaxEvents \in Nat
      /\ UNCHANGED << file, lock, sequence, cursor, got, acked, failures, crashes >>
  BY <1>1, EventStoreAssumption DEF Call, StoreTypeOK
<1>3. /\ app' \in [Threads -> Appending]
      /\ app'[t].pc = "wait" /\ app'[t].id = begun + 1 /\ app'[t].payload = p
      /\ \A u \in Threads : u # t => app'[u] = app[u]
  BY <1>1, <1>2 DEF Call, StoreTypeOK, Appending
<1>4. StoreTypeOK'
  BY <1>1, <1>2, <1>3 DEF StoreTypeOK
<1>5. LockIsHeld'
  BY <1>1, <1>2, <1>3 DEF LockIsHeld, Writing
<1>6. \A i \in 1 .. Len(file) : file[i].id \in 1 .. begun /\ file[i].id # begun + 1
  BY <1>1, <1>2 DEF Numbered
<1>7. \A u \in Threads : app[u].pc # "idle" => app[u].id \in 1 .. begun /\ app[u].id # begun + 1
  BY <1>1, <1>2 DEF Numbered
<1>8. Numbered'
  <2>1. \A u \in Threads : app'[u].pc # "idle" => app'[u].id \in 1 .. begun'
    BY <1>2, <1>3, <1>7
  <2>2. \A u, v \in Threads :
          app'[u].pc # "idle" /\ app'[v].pc # "idle" /\ app'[u].id = app'[v].id => u = v
    BY <1>1, <1>3, <1>7 DEF Numbered
  <2>3. /\ \A i \in 1 .. Len(file') : file'[i].id \in 1 .. begun'
        /\ \A a \in acked' : a.id \in 1 .. begun'
    BY <1>1, <1>2 DEF Numbered
  <2>4. \A u \in Threads : \A i \in 1 .. Len(file') :
          app'[u].pc \in { "wait", "begun" } => file'[i].id # app'[u].id
    BY <1>1, <1>2, <1>3, <1>6 DEF Numbered
  <2>5. \A u \in Threads : app'[u].pc \in { "part", "done" } =>
          /\ file' # << >>
          /\ file'[Len(file')].id = app'[u].id
          /\ file'[Len(file')].seq = app'[u].seq
          /\ app'[u].pc = "part" <=> ~ file'[Len(file')].ended
    BY <1>1, <1>2, <1>3 DEF Numbered
  <2> QED
    BY <2>1, <2>2, <2>3, <2>4, <2>5 DEF Numbered
<1>9. CounterIsAhead'
  BY <1>1, <1>2, <1>3 DEF CounterIsAhead, Writing, Events
<1>10. SequencesIncrease'
  BY <1>1, <1>2 DEF SequencesIncrease, Events
<1>11. PayloadIsGiven'
  BY <1>1, <1>3 DEF PayloadIsGiven
<1> QED
  BY <1>4, <1>5, <1>8, <1>9, <1>10, <1>11 DEF IInv

LEMMA BeginInv ==
  ASSUME IInv, NEW t \in Threads, Begin(t)
  PROVE  IInv'
<1>1. /\ StoreTypeOK /\ LockIsHeld /\ PayloadIsGiven
      /\ Numbered /\ CounterIsAhead /\ SequencesIncrease
  BY DEF IInv
<1>2. /\ app[t].pc = "wait" /\ lock = None /\ lock' = t
      /\ sequence' = NextSequence + 1
      /\ UNCHANGED << file, cursor, got, acked, begun, failures, crashes >>
  BY DEF Begin
<1>3. NextSequence \in Nat \ { 0 } /\ \A i \in Events : file[i].seq < NextSequence
  BY NextSequenceIsAhead
<1>4. \A u \in Threads : ~ Writing(u)
  BY <1>1, <1>2, EventStoreAssumption DEF LockIsHeld
<1>5. /\ app' \in [Threads -> Appending]
      /\ app'[t].pc = "begun" /\ app'[t].id = app[t].id /\ app'[t].seq = NextSequence
      /\ app'[t].payload = app[t].payload
      /\ \A u \in Threads : u # t => app'[u] = app[u]
  BY <1>1, <1>3 DEF Begin, StoreTypeOK, Appending
<1>6. StoreTypeOK'
  BY <1>1, <1>2, <1>3, <1>5 DEF StoreTypeOK
<1>7. LockIsHeld'
  BY <1>2, <1>4, <1>5 DEF LockIsHeld, Writing
<1>8. Numbered'
  BY <1>1, <1>2, <1>5 DEF Numbered
<1>9. CounterIsAhead'
  <2>1. \A i \in Events : file[i].seq \in Nat
    BY <1>1, EventsAreLines
  <2>2. Events' = Events
    BY <1>2 DEF Events
  <2> QED
    BY <1>2, <1>3, <1>4, <1>5, <2>1, <2>2 DEF CounterIsAhead, Writing
<1>10. SequencesIncrease'
  BY <1>1, <1>2 DEF SequencesIncrease, Events
<1>11. PayloadIsGiven'
  BY <1>1, <1>2, <1>5 DEF PayloadIsGiven
<1> QED
  BY <1>6, <1>7, <1>8, <1>9, <1>10, <1>11 DEF IInv

(* An append that could not number its event leaves things as they were.   *)
LEMMA BeginFailsEffect ==
  ASSUME IInv, NEW t \in Threads, BeginFails(t)
  PROVE  /\ app' \in [Threads -> Appending] /\ app'[t].pc = "idle"
         /\ app[t].pc = "wait"
         /\ \A u \in Threads : u # t => app'[u] = app[u]
         /\ UNCHANGED << file, lock, sequence, cursor, got, acked, begun, failures, crashes >>
<1>1. Idle \in Appending /\ Idle.pc = "idle"
  BY EventStoreAssumption DEF Appending, Idle
<1> QED
  BY <1>1 DEF BeginFails, IInv, StoreTypeOK

LEMMA BeginFailsInv ==
  ASSUME IInv, NEW t \in Threads, BeginFails(t)
  PROVE  IInv'
<1>1. /\ StoreTypeOK /\ LockIsHeld /\ PayloadIsGiven
      /\ Numbered /\ CounterIsAhead /\ SequencesIncrease
  BY DEF IInv
<1>2. /\ app' \in [Threads -> Appending] /\ app'[t].pc = "idle"
      /\ \A u \in Threads : u # t => app'[u] = app[u]
      /\ UNCHANGED << file, lock, sequence, cursor, got, acked, begun, failures, crashes >>
  BY BeginFailsEffect
<1>3. StoreTypeOK'
  BY <1>1, <1>2 DEF StoreTypeOK
<1>4. LockIsHeld' /\ PayloadIsGiven' /\ SequencesIncrease'
  BY <1>1, <1>2 DEF LockIsHeld, Writing, PayloadIsGiven, SequencesIncrease, Events
<1>5. Numbered'
  BY <1>1, <1>2 DEF Numbered
<1>6. CounterIsAhead'
  BY <1>1, <1>2 DEF CounterIsAhead, Writing, Events
<1> QED
  BY <1>3, <1>4, <1>5, <1>6 DEF IInv

(* Bytes of t's event arrive: all of them when it ends.                    *)
Writes(t, whole, ended, cut) ==
  /\ app[t].pc \in { "begun", "part" }
  /\ whole => app[t].payload = "plain"
  /\ ended /\ app[t].payload = "plain" => whole
  /\ ended => ~ cut
  /\ file' = Arrive([id |-> app[t].id, seq |-> app[t].seq, pure |-> TRUE,
                     whole |-> whole, ended |-> ended, cut |-> cut])
  /\ app' = [app EXCEPT ![t].pc = IF ended THEN "done" ELSE "part"]
  /\ UNCHANGED << lock, sequence, cursor, got, acked, begun, failures, crashes >>

LEMMA WritesSplit ==
  ASSUME NEW t \in Threads,
         WriteRest(t) \/ \E whole, cut \in BOOLEAN : WritePart(t, whole, cut)
  PROVE  \E whole, ended, cut \in BOOLEAN : Writes(t, whole, ended, cut)
<1>1. CASE WriteRest(t)
  <2>1. Writes(t, app[t].payload = "plain", TRUE, FALSE)
    BY <1>1 DEF WriteRest, Writes
  <2> QED
    BY <2>1
<1>2. ASSUME NEW whole \in BOOLEAN, NEW cut \in BOOLEAN, WritePart(t, whole, cut)
      PROVE  Writes(t, whole, FALSE, cut)
  BY <1>2 DEF WritePart, Writes
<1> QED
  BY <1>1, <1>2

(* What a write leaves: older lines, and a last one of t's event.          *)
LEMMA WritesEffect ==
  ASSUME IInv, NEW t \in Threads, NEW whole \in BOOLEAN, NEW ended \in BOOLEAN, NEW cut \in BOOLEAN,
         Writes(t, whole, ended, cut)
  PROVE  /\ file' \in Seq(Line) /\ Len(file') \in Nat \ { 0 }
         /\ \A i \in 1 .. Len(file') :
              i # Len(file') => i \in 1 .. Len(file) /\ file'[i] = file[i]
         /\ \A i \in 1 .. Len(file) :
              file[i].ended => i \in 1 .. Len(file') /\ i # Len(file')
         /\ file # << >> /\ ~ file[Len(file)].ended => Len(file') = Len(file)
         /\ file'[Len(file')].id = app[t].id /\ file'[Len(file')].seq = app[t].seq
         /\ file'[Len(file')].whole = whole /\ file'[Len(file')].ended = ended
         /\ (file # << >> /\ ~ file[Len(file)].ended
               => file[Len(file)].pure /\ file[Len(file)].id = app[t].id)
              => file'[Len(file')].pure /\ file'[Len(file')].cut = cut
         /\ app' \in [Threads -> Appending]
         /\ app'[t].pc = (IF ended THEN "done" ELSE "part")
         /\ app'[t].id = app[t].id /\ app'[t].seq = app[t].seq
         /\ app'[t].payload = app[t].payload
         /\ \A u \in Threads : u # t => app'[u] = app[u] /\ ~ Writing(u)
<1> DEFINE line == [id |-> app[t].id, seq |-> app[t].seq, pure |-> TRUE,
                    whole |-> whole, ended |-> ended, cut |-> cut]
<1>1. StoreTypeOK /\ Numbered /\ CounterIsAhead /\ Writing(t)
  BY DEF IInv, Writes, Writing
<1>2. app[t].id \in 1 .. begun /\ begun \in 0 .. MaxEvents /\ app[t].seq \in Nat \ { 0 }
  BY <1>1 DEF Writes, Numbered, CounterIsAhead, StoreTypeOK, Appending
<1>3. app[t].id \in 1 .. MaxEvents
  BY <1>2, EventStoreAssumption
<1>4. line \in Line
  BY <1>2, <1>3 DEF Line
<1>5. file \in Seq(Line) /\ file' = Arrive(line)
  BY <1>1 DEF StoreTypeOK, Writes
<1>6. /\ line.id = app[t].id /\ line.seq = app[t].seq /\ line.pure = TRUE
      /\ line.whole = whole /\ line.ended = ended /\ line.cut = cut
  OBVIOUS
<1> HIDE DEF line
<1>7. /\ file' \in Seq(Line) /\ Len(file') \in Nat \ { 0 }
      /\ \A i \in 1 .. Len(file') :
           i # Len(file') => i \in 1 .. Len(file) /\ file'[i] = file[i]
      /\ \A i \in 1 .. Len(file) :
           file[i].ended => i \in 1 .. Len(file') /\ i # Len(file')
      /\ file # << >> /\ ~ file[Len(file)].ended => Len(file') = Len(file)
      /\ file'[Len(file')].id = line.id /\ file'[Len(file')].seq = line.seq
      /\ file'[Len(file')].whole = line.whole /\ file'[Len(file')].ended = line.ended
      /\ line.pure /\ (file # << >> /\ ~ file[Len(file)].ended
                         => file[Len(file)].pure /\ file[Len(file)].id = line.id)
           => file'[Len(file')].pure /\ file'[Len(file')].cut = line.cut
  BY <1>4, <1>5, ArriveAtTheEnd
<1>8. /\ app' \in [Threads -> Appending]
      /\ app'[t].pc = (IF ended THEN "done" ELSE "part")
      /\ app'[t].id = app[t].id /\ app'[t].seq = app[t].seq
      /\ app'[t].payload = app[t].payload
      /\ \A u \in Threads : u # t => app'[u] = app[u]
  BY <1>1 DEF Writes, StoreTypeOK, Appending
<1>9. \A u \in Threads : u # t => ~ Writing(u)
  BY <1>1, OneWriter
<1> QED
  BY <1>6, <1>7, <1>8, <1>9

(* After a write the events are older ones and perhaps t's.                *)
LEMMA EventsAfterWrite ==
  ASSUME IInv, NEW t \in Threads, NEW whole \in BOOLEAN, NEW ended \in BOOLEAN, NEW cut \in BOOLEAN,
         Writes(t, whole, ended, cut)
  PROVE  \A i \in Events' :
           IF i = Len(file') THEN file'[i].seq = app[t].seq /\ file'[i].id = app[t].id
           ELSE i \in Events /\ file'[i] = file[i] /\ i < Len(file')
                /\ file[i].seq < app[t].seq
<1> TAKE i \in Events'
<1>1. i \in 1 .. Len(file') /\ IsValid(file'[i]) /\ Len(file') \in Nat
  BY WritesEffect DEF Events
<1>2. CASE i = Len(file')
  BY <1>2, WritesEffect
<1>3. CASE i # Len(file')
  <2>1. i \in 1 .. Len(file) /\ file'[i] = file[i]
    BY <1>1, <1>3, WritesEffect
  <2>2. i \in Events
    BY <1>1, <2>1 DEF Events
  <2>3. i < Len(file')
    BY <1>1, <1>3
  <2>4. file[i].seq < app[t].seq
    <3>1. CASE app[t].pc = "begun"
      BY <2>2, <3>1 DEF IInv, CounterIsAhead
    <3>2. CASE app[t].pc # "begun"
      <4>1. app[t].pc = "part" /\ ~ file[Len(file)].ended /\ file # << >>
        BY <3>2 DEF IInv, Numbered, Writes
      <4>2. i # Len(file)
        BY <1>3, <4>1, WritesEffect
      <4>3. Writing(t)
        BY <4>1 DEF Writing
      <4> QED
        BY <2>2, <4>2, <4>3 DEF IInv, CounterIsAhead
    <3> QED
      BY <3>1, <3>2
  <2> QED
    BY <1>3, <2>1, <2>2, <2>3, <2>4
<1> QED
  BY <1>2, <1>3

LEMMA WritesInv ==
  ASSUME IInv, NEW t \in Threads, NEW whole \in BOOLEAN, NEW ended \in BOOLEAN, NEW cut \in BOOLEAN,
         Writes(t, whole, ended, cut)
  PROVE  IInv'
<1>1. /\ StoreTypeOK /\ LockIsHeld /\ PayloadIsGiven
      /\ Numbered /\ CounterIsAhead /\ SequencesIncrease
  BY DEF IInv
<1>2. /\ app[t].pc \in { "begun", "part" }
      /\ UNCHANGED << lock, sequence, cursor, got, acked, begun, failures, crashes >>
  BY DEF Writes
<1>3. /\ app' \in [Threads -> Appending]
      /\ app'[t].pc = (IF ended THEN "done" ELSE "part")
      /\ app'[t].id = app[t].id /\ app'[t].seq = app[t].seq
      /\ app'[t].payload = app[t].payload
      /\ \A u \in Threads : u # t => app'[u] = app[u] /\ ~ Writing(u)
  BY WritesEffect
<1>4. /\ file' \in Seq(Line) /\ Len(file') \in Nat \ { 0 }
      /\ \A i \in 1 .. Len(file') :
           i # Len(file') => i \in 1 .. Len(file) /\ file'[i] = file[i]
      /\ file'[Len(file')].id = app[t].id /\ file'[Len(file')].seq = app[t].seq
      /\ file'[Len(file')].ended = ended
  BY WritesEffect
<1>5. Writing(t) /\ lock = t /\ app[t].seq > 0 /\ sequence = app[t].seq + 1
      /\ app[t].id \in 1 .. begun /\ app[t].seq \in Nat
  BY <1>1, <1>2 DEF Writing, LockIsHeld, CounterIsAhead, Numbered, StoreTypeOK, Appending
<1>6. StoreTypeOK'
  BY <1>1, <1>2, <1>3, <1>4 DEF StoreTypeOK
<1>7. LockIsHeld'
  BY <1>2, <1>3, <1>5 DEF LockIsHeld, Writing
<1>8. Numbered'
  <2>1. \A u, v \in Threads :
          app'[u].pc # "idle" /\ app'[v].pc # "idle" /\ app'[u].id = app'[v].id => u = v
    <3>1. \A u \in Threads : app'[u].id = app[u].id /\ (app'[u].pc # "idle" => app[u].pc # "idle")
      BY <1>2, <1>3
    <3> QED
      BY <1>1, <3>1 DEF Numbered
  <2>2. \A u \in Threads : app'[u].pc # "idle" => app'[u].id \in 1 .. begun'
    BY <1>1, <1>2, <1>3, <1>5 DEF Numbered
  <2>3. \A i \in 1 .. Len(file') : file'[i].id \in 1 .. begun'
    BY <1>1, <1>2, <1>4, <1>5 DEF Numbered
  <2>4. \A a \in acked' : a.id \in 1 .. begun'
    BY <1>1, <1>2 DEF Numbered
  <2>5. ASSUME NEW u \in Threads, NEW i \in 1 .. Len(file'), app'[u].pc \in { "wait", "begun" }
        PROVE  file'[i].id # app'[u].id
    <3>1. u # t /\ app'[u] = app[u]
      BY <1>3, <2>5
    <3>2. app[u].id # app[t].id
      BY <1>1, <1>2, <2>5, <3>1 DEF Numbered
    <3>3. CASE i = Len(file')
      BY <1>4, <3>1, <3>2, <3>3
    <3>4. CASE i # Len(file')
      BY <1>1, <1>4, <2>5, <3>1, <3>4 DEF Numbered
    <3> QED
      BY <3>3, <3>4
  <2>6. ASSUME NEW u \in Threads, app'[u].pc \in { "part", "done" }
        PROVE  /\ file' # << >>
               /\ file'[Len(file')].id = app'[u].id
               /\ file'[Len(file')].seq = app'[u].seq
               /\ app'[u].pc = "part" <=> ~ file'[Len(file')].ended
    <3>1. u = t
      BY <1>3, <2>6 DEF Writing
    <3>2. file' # << >>
      BY <1>4
    <3> QED
      BY <1>3, <1>4, <3>1, <3>2
  <2> QED
    BY <2>1, <2>2, <2>3, <2>4, <2>5, <2>6 DEF Numbered
<1>9. \A i \in Events' :
        IF i = Len(file') THEN file'[i].seq = app[t].seq
        ELSE i \in Events /\ file'[i] = file[i] /\ i < Len(file') /\ file[i].seq < app[t].seq
  BY EventsAfterWrite
<1>10. \A i \in Events : i \in Nat /\ file[i].seq \in Nat
  BY <1>1, EventsAreLines
<1>11. CounterIsAhead'
  <2>1. \A i \in Events' : file'[i].seq < sequence'
    BY <1>2, <1>5, <1>9, <1>10
  <2>2. \A u \in Threads : (Writing(u))' => u = t
    BY <1>3 DEF Writing
  <2>3. app'[t].seq > 0 /\ sequence' = app'[t].seq + 1 /\ app'[t].pc # "begun"
    BY <1>2, <1>3, <1>5
  <2>4. \A i \in Events' : i # Len(file') => file'[i].seq < app'[t].seq
    BY <1>3, <1>9
  <2>5. \A u \in Threads : app'[u].pc = "begun" => (Writing(u))'
    BY DEF Writing
  <2> QED
    BY <2>1, <2>2, <2>3, <2>4, <2>5 DEF CounterIsAhead
<1>12. SequencesIncrease'
  <2>1. ASSUME NEW i \in Events', NEW j \in Events', i < j
        PROVE  file'[i].seq < file'[j].seq
    <3>1. i # Len(file')
      <4>1. j \in 1 .. Len(file')
        BY DEF Events
      <4>2. j \in Nat /\ j <= Len(file')
        BY <1>4, <4>1
      <4> QED
        BY <1>4, <2>1, <4>2
    <3>2. i \in Events /\ file'[i] = file[i] /\ file[i].seq < app[t].seq
      BY <1>9, <3>1
    <3>3. CASE j = Len(file')
      BY <1>9, <3>2, <3>3
    <3>4. CASE j # Len(file')
      BY <1>1, <1>9, <2>1, <3>2, <3>4 DEF SequencesIncrease
    <3> QED
      BY <3>3, <3>4
  <2> QED
    BY <2>1 DEF SequencesIncrease
<1>13. PayloadIsGiven'
  BY <1>1, <1>2, <1>3 DEF PayloadIsGiven
<1> QED
  BY <1>6, <1>7, <1>8, <1>11, <1>12, <1>13 DEF IInv

(* append ends, by returning or raising. *)
LEMMA EndInv ==
  ASSUME IInv, NEW t \in Threads, WriteFails(t) \/ Return(t)
  PROVE  IInv'
<1>1. /\ StoreTypeOK /\ LockIsHeld /\ PayloadIsGiven
      /\ Numbered /\ CounterIsAhead /\ SequencesIncrease
  BY DEF IInv
<1>2. /\ Writing(t) /\ lock' = None
      /\ app' = [app EXCEPT ![t] = Idle]
      /\ UNCHANGED << file, sequence, cursor, got, begun, crashes >>
  BY DEF WriteFails, Return, Writing
<1>3. /\ app' \in [Threads -> Appending] /\ app'[t].pc = "idle"
      /\ \A u \in Threads : u # t => app'[u] = app[u] /\ ~ Writing(u)
  <2>1. Idle \in Appending /\ Idle.pc = "idle"
    BY EventStoreAssumption DEF Appending, Idle
  <2>2. \A u \in Threads : u # t => ~ Writing(u)
    BY <1>2, OneWriter
  <2> QED
    BY <1>1, <1>2, <2>1, <2>2 DEF StoreTypeOK
<1>4. /\ app[t].id \in 1 .. begun /\ app[t].seq \in Nat \ { 0 }
      /\ app[t].payload \in Payloads /\ begun \in 0 .. MaxEvents
  BY <1>1, <1>2 DEF Numbered, CounterIsAhead, PayloadIsGiven, Writing, StoreTypeOK, Appending
<1>5. failures' \in 0 .. MaxFailures /\ begun' \in 0 .. MaxEvents
  <2>1. failures \in 0 .. MaxFailures
    BY <1>1 DEF StoreTypeOK
  <2>2. \/ failures' = failures
        \/ failures < MaxFailures /\ failures' = failures + 1
    BY DEF WriteFails, Return
  <2> QED
    BY <1>2, <1>4, <2>1, <2>2, EventStoreAssumption
<1>6. \A a \in acked' : a.id \in 1 .. begun
  BY <1>1, <1>4 DEF WriteFails, Return, Numbered
<1>7. \A u \in Threads : ~ (Writing(u))'
  BY <1>3 DEF Writing
<1>8. StoreTypeOK'
  <2>1. acked' \subseteq [id : 1 .. MaxEvents, seq : Nat \ { 0 }, payload : Payloads]
    <3>1. app[t].id \in 1 .. MaxEvents
      BY <1>4, EventStoreAssumption
    <3>2. \/ acked' = acked
          \/ acked' = acked \cup { [id |-> app[t].id, seq |-> app[t].seq,
                                   payload |-> app[t].payload] }
      BY DEF WriteFails, Return
    <3> QED
      BY <1>1, <1>4, <3>1, <3>2 DEF StoreTypeOK
  <2> QED
    BY <1>1, <1>2, <1>3, <1>5, <2>1 DEF StoreTypeOK
<1>9. LockIsHeld' /\ SequencesIncrease' /\ PayloadIsGiven'
  BY <1>1, <1>2, <1>3, <1>7 DEF LockIsHeld, SequencesIncrease, PayloadIsGiven, Events
<1>10. Numbered'
  BY <1>1, <1>2, <1>3, <1>6 DEF Numbered
<1>11. CounterIsAhead'
  <2>1. \A u \in Threads : app'[u].pc # "begun"
    BY <1>7 DEF Writing
  <2> QED
    BY <1>1, <1>2, <1>7, <2>1 DEF CounterIsAhead, Events
<1> QED
  BY <1>8, <1>9, <1>10, <1>11 DEF IInv

(* A reader's page: its lines, its last one, and what comes before that.   *)
LEMMA PageIsFirst ==
  ASSUME IInv, NEW n, ReadAfter(n) # {}
  PROVE  LET m == Max(ReadAfter(n)) IN
         /\ m \in ReadAfter(n) /\ m \in Events /\ file[m].seq > n
         /\ \A i \in Events :
              file[i].seq <= file[m].seq /\ file[i].seq > n => i \in ReadAfter(n)
<1> DEFINE m == Max(ReadAfter(n))
           Before(i) == { j \in After(n) : j < i }
<1>1. /\ file \in Seq(Line) /\ Len(file) \in Nat
      /\ Events \subseteq 1 .. Len(file)
      /\ \A i \in Events : i \in Nat /\ file[i].seq \in Nat
  BY EventsAreLines DEF IInv
<1>2. ReadAfter(n) \subseteq After(n) /\ After(n) \subseteq Events
  BY DEF ReadAfter, After
<1>3. m \in ReadAfter(n)
  BY <1>1, <1>2, MaxIsGreatest
<1>4. m \in Events /\ file[m].seq > n /\ Cardinality(Before(m)) < Limit
  BY <1>2, <1>3 DEF ReadAfter, After
<1> HIDE DEF m
<1>5. ASSUME NEW i \in Events, file[i].seq <= file[m].seq, file[i].seq > n
      PROVE  i \in ReadAfter(n)
  <2>1. i \in After(n)
    BY <1>5 DEF After
  <2>2. i <= m
    BY <1>1, <1>4, <1>5 DEF IInv, SequencesIncrease
  <2>3. Before(i) \subseteq Before(m)
    <3>1. \A j \in After(n) : j < i => j < m
      <4>1. \A j \in After(n) : j \in Nat
        BY <1>1, <1>2
      <4>2. i \in Nat /\ m \in Nat
        BY <1>1, <1>4
      <4> QED
        BY <2>2, <4>1, <4>2
    <3> QED
      BY <3>1, Zenon
  <2>4. IsFiniteSet(Before(m))
    <3>1. Before(m) \subseteq 1 .. Len(file)
      <4>1. Before(m) \subseteq After(n)
        BY Zenon
      <4>2. After(n) \subseteq 1 .. Len(file)
        BY <1>1, <1>2, Zenon
      <4> QED
        BY <4>1, <4>2, Zenon
    <3>2. IsFiniteSet(1 .. Len(file))
      <4>1. 1 \in Int /\ Len(file) \in Int
        BY <1>1
      <4> QED
        BY <4>1, FS_Interval, Zenon
    <3> QED
      BY <3>1, <3>2, FS_Subset, Zenon
  <2>5. /\ IsFiniteSet(Before(i)) /\ Cardinality(Before(i)) <= Cardinality(Before(m))
    BY <2>3, <2>4, FS_Subset, Zenon
  <2>6. Cardinality(Before(i)) \in Nat /\ Cardinality(Before(m)) \in Nat
    BY <2>4, <2>5, FS_CardinalityType
  <2>7. Cardinality(Before(i)) < Limit
    BY <1>4, <2>5, <2>6, EventStoreAssumption
  <2> QED
    BY <2>1, <2>7 DEF ReadAfter
<1> QED
  BY <1>3, <1>4, <1>5 DEF m

LEMMA PollInv ==
  ASSUME IInv, NEW r \in Readers, Poll(r)
  PROVE  IInv'
<1>1. /\ StoreTypeOK /\ LockIsHeld /\ PayloadIsGiven
      /\ Numbered /\ CounterIsAhead /\ SequencesIncrease
  BY DEF IInv
<1> DEFINE page == ReadAfter(cursor[r])
<1>2. /\ page # {}
      /\ cursor' = [cursor EXCEPT ![r] = file[Max(page)].seq]
      /\ got' = [got EXCEPT ![r] = @ \cup { file[i].id : i \in page }]
      /\ UNCHANGED << file, lock, sequence, app, acked, begun, failures, crashes >>
  BY DEF Poll
<1>3. Max(page) \in Events /\ page \subseteq Events
  BY <1>2, PageIsFirst DEF ReadAfter, After
<1>4. \A i \in Events : file[i].seq \in Nat /\ file[i].id \in 1 .. MaxEvents
  BY <1>1, EventsAreLines DEF Line
<1>5. StoreTypeOK'
  <2>1. cursor' \in [Readers -> Nat]
    BY <1>1, <1>2, <1>3, <1>4 DEF StoreTypeOK
  <2>2. got' \in [Readers -> SUBSET (1 .. MaxEvents)]
    BY <1>1, <1>2, <1>3, <1>4 DEF StoreTypeOK
  <2> QED
    BY <1>1, <1>2, <2>1, <2>2 DEF StoreTypeOK
<1>6. LockIsHeld' /\ PayloadIsGiven' /\ SequencesIncrease'
  BY <1>1, <1>2 DEF LockIsHeld, Writing, PayloadIsGiven, SequencesIncrease, Events
<1>7. Numbered'
  BY <1>1, <1>2 DEF Numbered
<1>8. CounterIsAhead'
  BY <1>1, <1>2 DEF CounterIsAhead, Writing, Events
<1> QED
  BY <1>5, <1>6, <1>7, <1>8 DEF IInv

LEMMA CrashInv ==
  ASSUME IInv, Crash
  PROVE  IInv'
<1>1. /\ StoreTypeOK /\ LockIsHeld /\ PayloadIsGiven
      /\ Numbered /\ CounterIsAhead /\ SequencesIncrease
  BY DEF IInv
<1>2. /\ crashes < MaxCrashes /\ crashes' = crashes + 1
      /\ lock' = None /\ sequence' = 0
      /\ app' = [t \in Threads |-> Idle]
      /\ UNCHANGED << file, cursor, got, acked, begun, failures >>
  BY DEF Crash
<1>3. Idle \in Appending /\ \A u \in Threads : app'[u].pc = "idle"
  BY <1>2, EventStoreAssumption DEF Appending, Idle
<1>4. crashes' \in 0 .. MaxCrashes
  BY <1>1, <1>2, EventStoreAssumption DEF StoreTypeOK
<1>5. StoreTypeOK'
  BY <1>1, <1>2, <1>3, <1>4 DEF StoreTypeOK
<1>6. LockIsHeld' /\ PayloadIsGiven' /\ SequencesIncrease'
  BY <1>1, <1>2, <1>3 DEF LockIsHeld, Writing, PayloadIsGiven, SequencesIncrease, Events
<1>7. Numbered'
  BY <1>1, <1>2, <1>3 DEF Numbered
<1>8. CounterIsAhead'
  BY <1>2, <1>3 DEF CounterIsAhead, Writing
<1> QED
  BY <1>5, <1>6, <1>7, <1>8 DEF IInv

LEMMA NextInv == IInv /\ [StoreNext]_storeVars => IInv'
<1> SUFFICES ASSUME IInv, [StoreNext]_storeVars PROVE IInv'
  OBVIOUS
<1>1. CASE UNCHANGED storeVars
  BY <1>1 DEF storeVars, IInv, StoreTypeOK, LockIsHeld, Writing, PayloadIsGiven, Numbered,
              CounterIsAhead, SequencesIncrease, Events
<1>2. ASSUME NEW t \in Threads, AppendStep(t)
      PROVE  IInv'
  <2>1. CASE Begin(t)
    BY <2>1, BeginInv
  <2>2. CASE WriteRest(t) \/ \E whole, cut \in BOOLEAN : WritePart(t, whole, cut)
    BY <2>2, WritesSplit, WritesInv
  <2>3. CASE WriteFails(t) \/ Return(t)
    BY <2>3, EndInv
  <2>4. CASE BeginFails(t)
    BY <2>4, BeginFailsInv
  <2> QED
    BY <1>2, <2>1, <2>2, <2>3, <2>4 DEF AppendStep
<1>3. ASSUME NEW t \in Threads, NEW p \in Payloads, Call(t, p)
      PROVE  IInv'
  BY <1>3, CallInv
<1>4. ASSUME NEW r \in Readers, Poll(r)
      PROVE  IInv'
  BY <1>4, PollInv
<1>5. CASE Crash
  BY <1>5, CrashInv
<1> QED
  BY <1>1, <1>2, <1>3, <1>4, <1>5 DEF StoreNext

(* The strengthened invariant holds of the specification.                  *)
THEOREM Invariance == StoreSpec => []IInv
  BY InitInv, NextInv, PTL DEF StoreSpec

(* What can be read is in increasing order of sequence, whatever writes    *)
(* fail, wherever the process dies, and whatever a torn line swallows.     *)
THEOREM EventsInOrder == StoreSpec => []SequencesIncrease
<1>1. IInv => SequencesIncrease
  BY DEF IInv
<1> QED
  BY <1>1, Invariance, PTL

------------------------------------------------------------------------------
(* Without a failed write or a restart *)

LEMMA WritesWhole ==
  ASSUME IInv, LinesAreWhole, NEW t \in Threads, NEW whole \in BOOLEAN, NEW ended \in BOOLEAN, NEW cut \in BOOLEAN,
         Writes(t, whole, ended, cut)
  PROVE  LinesAreWhole'
<1>1. CASE ~ (failures = 0 /\ crashes = 0)
  BY <1>1 DEF LinesAreWhole, Writes
<1>2. CASE failures = 0 /\ crashes = 0
  <2>1. /\ \A i \in 1 .. Len(file) : file[i].pure /\ (file[i].cut => ~ file[i].ended)
        /\ \A i \in 1 .. Len(file) :
             ~ file[i].ended => i = Len(file) /\ \E u \in Threads : app[u].pc = "part"
        /\ \A a \in acked : a.payload = "plain" => Whole(file, a.id)
    BY <1>2 DEF LinesAreWhole
  <2>2. /\ Len(file) \in Nat /\ (file # << >> => Len(file) \in 1 .. Len(file))
        /\ Len(file') \in Nat \ { 0 } /\ Len(file') \in 1 .. Len(file')
    <3>1. file \in Seq(Line) /\ Len(file) \in Nat
      BY EventsAreLines DEF IInv
    <3>2. file # << >> => Len(file) # 0
      BY <3>1, EmptySeq
    <3> QED
      BY <3>1, <3>2, WritesEffect
  <2>3. \A u \in Threads : app[u].pc = "part" => u = t
    BY WritesEffect DEF Writing
  <2>4. file # << >> /\ ~ file[Len(file)].ended
          => file[Len(file)].pure /\ file[Len(file)].id = app[t].id
    BY <2>1, <2>2, <2>3 DEF IInv, Numbered
  <2>5. \A i \in 1 .. Len(file') : file'[i].pure /\ (file'[i].cut => ~ file'[i].ended)
    <3> TAKE i \in 1 .. Len(file')
    <3>1. CASE i = Len(file')
      <4>1. ended => ~ cut
        BY DEF Writes
      <4> QED
        BY <2>4, <3>1, <4>1, WritesEffect
    <3>2. CASE i # Len(file')
      BY <2>1, <3>2, WritesEffect
    <3> QED
      BY <3>1, <3>2
  <2>6. ASSUME NEW i \in 1 .. Len(file'), ~ file'[i].ended
        PROVE  i = Len(file') /\ \E u \in Threads : app'[u].pc = "part"
    <3>1. i = Len(file')
      <4> SUFFICES ASSUME i # Len(file') PROVE FALSE
        OBVIOUS
      <4>1. i \in 1 .. Len(file) /\ ~ file[i].ended
        BY <2>6, WritesEffect
      <4>2. i = Len(file) /\ file # << >>
        BY <2>1, <4>1
      <4> QED
        BY <4>1, <4>2, WritesEffect
    <3>2. app'[t].pc = "part"
      BY <2>6, <3>1, WritesEffect
    <3> QED
      BY <3>1, <3>2
  <2>7. ASSUME NEW u \in Threads, app'[u].pc = "done", app'[u].payload = "plain"
        PROVE  Whole(file', app'[u].id)
    <3>1. u = t
      BY <2>7, WritesEffect DEF Writing
    <3>2. ended /\ app[t].payload = "plain"
      BY <2>7, <3>1, WritesEffect
    <3>3. whole
      BY <3>2 DEF Writes
    <3>4. /\ file'[Len(file')].id = app'[u].id
          /\ file'[Len(file')].whole /\ file'[Len(file')].ended
      BY <3>1, <3>2, <3>3, WritesEffect
    <3> QED
      BY <2>2, <3>4 DEF Whole
  <2>8. ASSUME NEW a \in acked', a.payload = "plain"
        PROVE  Whole(file', a.id)
    <3>1. a \in acked
      BY DEF Writes
    <3>2. PICK i \in 1 .. Len(file) : file[i].id = a.id /\ file[i].whole /\ file[i].ended
      BY <2>1, <2>8, <3>1 DEF Whole
    <3>3. i \in 1 .. Len(file') /\ file'[i] = file[i]
      BY <3>2, WritesEffect
    <3> QED
      BY <3>2, <3>3 DEF Whole
  <2> QED
    BY <2>5, <2>6, <2>7, <2>8 DEF LinesAreWhole
<1> QED
  BY <1>1, <1>2

LEMMA EndWhole ==
  ASSUME IInv, LinesAreWhole, NEW t \in Threads, WriteFails(t) \/ Return(t)
  PROVE  LinesAreWhole'
<1>1. CASE WriteFails(t)
  <2>1. failures' # 0
    BY <1>1 DEF WriteFails, IInv, StoreTypeOK
  <2> QED
    BY <2>1 DEF LinesAreWhole
<1>2. CASE Return(t)
  <2>1. /\ app[t].pc = "done"
        /\ acked' = acked \cup { [id |-> app[t].id, seq |-> app[t].seq,
                                 payload |-> app[t].payload] }
        /\ app' = [app EXCEPT ![t] = Idle]
        /\ UNCHANGED << file, failures, crashes >>
    BY <1>2 DEF Return
  <2>2. \A u \in Threads : app[u].pc # "part"
    BY <2>1, OneWriter DEF Writing
  <2>3. \A u \in Threads : app'[u].pc # "done"
    BY <2>1, OneWriter DEF Writing, Idle, IInv, StoreTypeOK
  <2>4. \A a \in acked' :
          a \in acked \/ (a.id = app[t].id /\ a.payload = app[t].payload)
    BY <2>1
  <2> QED
    BY <2>1, <2>2, <2>3, <2>4 DEF LinesAreWhole
<1> QED
  BY <1>1, <1>2

LEMMA NextWhole ==
  ASSUME IInv, LinesAreWhole, [StoreNext]_storeVars
  PROVE  LinesAreWhole'
<1>1. CASE UNCHANGED storeVars
  BY <1>1 DEF storeVars, LinesAreWhole
<1>2. ASSUME NEW t \in Threads, AppendStep(t)
      PROVE  LinesAreWhole'
  <2>1. CASE Begin(t)
    <3>1. /\ \A u \in Threads : app'[u].pc \in { "part", "done" } <=> app[u].pc \in { "part", "done" }
          /\ \A u \in Threads : app'[u].pc \in { "part", "done" } => app'[u] = app[u]
          /\ \A u \in Threads : app[u].pc \in { "part", "done" } => app'[u] = app[u]
          /\ UNCHANGED << file, acked, failures, crashes >>
      BY <2>1 DEF Begin, IInv, StoreTypeOK, Appending
    <3> QED
      BY <3>1 DEF LinesAreWhole
  <2>2. CASE WriteRest(t) \/ \E whole, cut \in BOOLEAN : WritePart(t, whole, cut)
    BY <2>2, WritesSplit, WritesWhole
  <2>3. CASE WriteFails(t) \/ Return(t)
    BY <2>3, EndWhole
  <2>4. CASE BeginFails(t)
    <3>1. /\ \A u \in Threads : app'[u].pc \in { "part", "done" } => app'[u] = app[u]
          /\ \A u \in Threads : app[u].pc \in { "part", "done" } => app'[u] = app[u]
          /\ UNCHANGED << file, acked, failures, crashes >>
      BY <2>4, BeginFailsEffect
    <3> QED
      BY <3>1 DEF LinesAreWhole
  <2> QED
    BY <1>2, <2>1, <2>2, <2>3, <2>4 DEF AppendStep
<1>3. ASSUME NEW t \in Threads, NEW p \in Payloads, Call(t, p)
      PROVE  LinesAreWhole'
  <2>1. /\ \A u \in Threads : app'[u].pc \in { "part", "done" } => app'[u] = app[u]
        /\ \A u \in Threads : app[u].pc \in { "part", "done" } => app'[u] = app[u]
        /\ UNCHANGED << file, acked, failures, crashes >>
    BY <1>3 DEF Call, IInv, StoreTypeOK, Appending
  <2> QED
    BY <2>1 DEF LinesAreWhole
<1>4. ASSUME NEW r \in Readers, Poll(r)
      PROVE  LinesAreWhole'
  BY <1>4 DEF Poll, LinesAreWhole
<1>5. CASE Crash
  <2>1. crashes' # 0
    BY <1>5 DEF Crash, IInv, StoreTypeOK
  <2> QED
    BY <2>1 DEF LinesAreWhole
<1> QED
  BY <1>1, <1>2, <1>3, <1>4, <1>5 DEF StoreNext

(* Without faults an event that append returned is found by every read     *)
(* that does not meet a character half written, and only a line that is    *)
(* being written holds one.                                                *)
THEOREM AcknowledgedIsRead == StoreSpec => []AcknowledgedIsReadable
<1>1. StoreInit => LinesAreWhole
  BY DEF StoreInit, Idle, LinesAreWhole
<1>2. IInv /\ LinesAreWhole /\ [StoreNext]_storeVars => LinesAreWhole'
  BY NextWhole
<1>3. LinesAreWhole => AcknowledgedIsReadable
  BY DEF LinesAreWhole, Whole, AcknowledgedIsReadable, Events, IsValid, Decodable
<1> QED
  BY <1>1, <1>2, <1>3, Invariance, PTL DEF StoreSpec

------------------------------------------------------------------------------
(* What a reader has been given, in the first life of the process *)

Followed == CursorsFollow /\ ReaderMissesNothing

LEMMA BeginFollowed ==
  ASSUME IInv, Followed, NEW t \in Threads, Begin(t)
  PROVE  Followed'
<1>1. CASE crashes # 0
  BY <1>1 DEF Followed, CursorsFollow, ReaderMissesNothing, Begin
<1>2. CASE crashes = 0
  <2>1. /\ sequence' = NextSequence + 1 /\ lock = None
        /\ UNCHANGED << file, cursor, got, crashes >>
    BY DEF Begin
  <2>2. /\ app'[t].pc = "begun" /\ app'[t].seq = NextSequence
        /\ \A u \in Threads : u # t => app'[u] = app[u] /\ ~ Writing(u)
    BY <2>1, EventStoreAssumption DEF Begin, IInv, StoreTypeOK, Appending, LockIsHeld
  <2>3. NextSequence \in Nat \ { 0 }
    BY NextSequenceIsAhead
  <2>4. ASSUME NEW r \in Readers
        PROVE  cursor[r] < NextSequence /\ cursor[r] \in Nat
    <3>1. cursor[r] \in Nat
      BY DEF IInv, StoreTypeOK
    <3>2. CASE sequence = 0
      BY <1>2, <2>3, <3>1, <3>2 DEF Followed, CursorsFollow
    <3>3. CASE sequence # 0
      BY <1>2, <3>1, <3>3 DEF Followed, CursorsFollow, NextSequence
    <3> QED
      BY <3>1, <3>2, <3>3
  <2>5. \A r \in Readers : cursor'[r] < sequence'
    BY <2>1, <2>3, <2>4
  <2>6. \A u \in Threads : (Writing(u))' => u = t
    BY <2>2 DEF Writing
  <2>7. \A u \in Threads, r \in Readers :
          (Writing(u))' => cursor'[r] < app'[u].seq
    BY <2>1, <2>2, <2>4, <2>6
  <2>8. CursorsFollow'
    BY <2>1, <2>3, <2>5, <2>7 DEF CursorsFollow, Writing
  <2>9. ReaderMissesNothing'
    BY <2>1 DEF Followed, ReaderMissesNothing, Events
  <2> QED
    BY <2>8, <2>9 DEF Followed
<1> QED
  BY <1>1, <1>2

LEMMA WritesFollowed ==
  ASSUME IInv, Followed, NEW t \in Threads, NEW whole \in BOOLEAN, NEW ended \in BOOLEAN, NEW cut \in BOOLEAN,
         Writes(t, whole, ended, cut)
  PROVE  Followed'
<1>1. CASE crashes # 0
  BY <1>1 DEF Followed, CursorsFollow, ReaderMissesNothing, Writes
<1>2. CASE crashes = 0
  <2>1. Writing(t) /\ UNCHANGED << sequence, cursor, got, crashes >>
    BY DEF Writes, Writing
  <2>2. sequence # 0 /\ app[t].seq \in Nat
    BY <2>1 DEF IInv, CounterIsAhead, StoreTypeOK, Appending
  <2>3. \A r \in Readers :
          /\ cursor[r] \in Nat /\ cursor[r] < sequence
          /\ cursor[r] < app[t].seq \/ app[t].id \in got[r]
    BY <1>2, <2>1, <2>2 DEF Followed, CursorsFollow, IInv, StoreTypeOK
  <2>4. \A u \in Threads : (Writing(u))' => u = t /\ app'[u].pc # "begun"
    BY WritesEffect DEF Writing
  <2>5. app'[t].seq = app[t].seq /\ app'[t].id = app[t].id
    BY WritesEffect
  <2>6. CursorsFollow'
    <3>1. \A u \in Threads : app'[u].pc = "begun" => (Writing(u))'
      BY DEF Writing
    <3>2. \A u \in Threads, r \in Readers :
            (Writing(u))' => cursor'[r] < app'[u].seq \/ app'[u].id \in got'[r]
      BY <2>1, <2>3, <2>4, <2>5
    <3>3. \A r \in Readers : cursor'[r] < sequence'
      BY <2>1, <2>3
    <3>4. sequence' # 0
      BY <2>1, <2>2
    <3> QED
      BY <2>4, <3>1, <3>2, <3>3, <3>4 DEF CursorsFollow
  <2>7. ASSUME NEW r \in Readers, NEW i \in Events', file'[i].seq <= cursor'[r]
        PROVE  file'[i].id \in got'[r]
    <3>1. CASE i = Len(file')
      <4>1. file'[i].seq = app[t].seq /\ file'[i].id = app[t].id
        BY <3>1, EventsAfterWrite
      <4>2. ~ (cursor[r] < app[t].seq)
        <5>1. app[t].seq <= cursor[r]
          BY <2>1, <2>7, <4>1
        <5>2. app[t].seq \in Nat /\ cursor[r] \in Nat
          BY <2>2, <2>3
        <5> QED
          BY <5>1, <5>2
      <4> QED
        BY <2>1, <2>3, <4>1, <4>2
    <3>2. CASE i # Len(file')
      <4>1. i \in Events /\ file'[i] = file[i]
        BY <3>2, EventsAfterWrite
      <4> QED
        BY <1>2, <2>1, <2>7, <4>1 DEF Followed, ReaderMissesNothing
    <3> QED
      BY <3>1, <3>2
  <2> QED
    BY <2>6, <2>7 DEF Followed, ReaderMissesNothing
<1> QED
  BY <1>1, <1>2

LEMMA PollFollowed ==
  ASSUME IInv, Followed, NEW r \in Readers, Poll(r)
  PROVE  Followed'
<1>1. CASE crashes # 0
  BY <1>1 DEF Followed, CursorsFollow, ReaderMissesNothing, Poll
<1>2. CASE crashes = 0
  <2> DEFINE page == ReadAfter(cursor[r])
             m == Max(page)
  <2>1. /\ page # {}
        /\ cursor' = [cursor EXCEPT ![r] = file[m].seq]
        /\ got' = [got EXCEPT ![r] = @ \cup { file[i].id : i \in page }]
        /\ UNCHANGED << file, sequence, app, crashes >>
    BY DEF Poll
  <2>2. /\ m \in page /\ m \in Events /\ file[m].seq > cursor[r]
        /\ \A i \in Events :
             file[i].seq <= file[m].seq /\ file[i].seq > cursor[r] => i \in page
    BY <2>1, PageIsFirst
  <2> HIDE DEF m, page
  <2>3. /\ cursor \in [Readers -> Nat] /\ DOMAIN got = Readers
        /\ \A i \in Events : i \in 1 .. Len(file) /\ file[i].seq \in Nat
    BY EventsAreLines DEF IInv, StoreTypeOK
  <2>4. /\ cursor'[r] = file[m].seq
        /\ got'[r] = got[r] \cup { file[i].id : i \in page }
        /\ \A s \in Readers : s # r => cursor'[s] = cursor[s] /\ got'[s] = got[s]
    BY <2>1, <2>3
  <2>5. file # << >> /\ sequence # 0 /\ file[m].seq < sequence
    <3>1. file # << >>
      BY <2>2, <2>3
    <3>2. sequence # 0
      BY <1>2, <3>1 DEF Followed, CursorsFollow
    <3> QED
      BY <2>2, <3>1, <3>2 DEF IInv, CounterIsAhead
  <2>6. ASSUME NEW s \in Readers
        PROVE  cursor'[s] < sequence'
    BY <1>2, <2>1, <2>4, <2>5 DEF Followed, CursorsFollow
  <2>7. ASSUME NEW t \in Threads, NEW s \in Readers
        PROVE  /\ app'[t].pc = "begun" => cursor'[s] < app'[t].seq
               /\ Writing(t) => cursor'[s] < app'[t].seq \/ app'[t].id \in got'[s]
    <3>1. CASE s # r
      BY <1>2, <2>1, <2>4, <3>1 DEF Followed, CursorsFollow
    <3>2. CASE s = r
      <4>1. app[t].pc = "begun" => file[m].seq < app[t].seq
        BY <2>2 DEF IInv, CounterIsAhead
      <4>2. CASE Writing(t) /\ m # Len(file)
        BY <2>1, <2>2, <2>4, <3>2, <4>1, <4>2 DEF IInv, CounterIsAhead
      <4>3. CASE Writing(t) /\ m = Len(file)
        <5>1. CASE app[t].pc = "begun"
          BY <2>1, <2>4, <3>2, <4>1, <5>1
        <5>2. CASE app[t].pc # "begun"
          <6>1. file[m].id = app[t].id
            BY <4>3, <5>2 DEF IInv, Numbered, Writing
          <6> QED
            BY <2>1, <2>2, <2>4, <3>2, <5>2, <6>1
        <5> QED
          BY <5>1, <5>2
      <4>4. CASE ~ Writing(t)
        BY <2>1, <4>4 DEF Writing
      <4> QED
        BY <4>2, <4>3, <4>4
    <3> QED
      BY <3>1, <3>2
  <2>8. CursorsFollow'
    <3>1. \A t \in Threads : (Writing(t))' <=> Writing(t)
      BY <2>1 DEF Writing
    <3> QED
      BY <2>1, <2>5, <2>6, <2>7, <3>1 DEF CursorsFollow
  <2>9. ASSUME NEW s \in Readers, NEW i \in Events, file[i].seq <= cursor'[s]
        PROVE  file[i].id \in got'[s]
    <3>1. CASE s # r
      BY <1>2, <2>4, <2>9, <3>1 DEF Followed, ReaderMissesNothing
    <3>2. CASE s = r /\ file[i].seq <= cursor[r]
      BY <1>2, <2>4, <3>2 DEF Followed, ReaderMissesNothing
    <3>3. CASE s = r /\ ~ (file[i].seq <= cursor[r])
      <4>1. i \in page
        BY <2>2, <2>3, <2>4, <2>9, <3>3
      <4> QED
        BY <2>4, <3>3, <4>1
    <3> QED
      BY <3>1, <3>2, <3>3
  <2>10. ReaderMissesNothing'
    <3>1. Events' = Events
      BY <2>1 DEF Events
    <3> QED
      BY <2>1, <2>9, <3>1 DEF ReaderMissesNothing
  <2> QED
    BY <2>8, <2>10 DEF Followed
<1> QED
  BY <1>1, <1>2

LEMMA NextFollowed ==
  ASSUME IInv, Followed, [StoreNext]_storeVars
  PROVE  Followed'
<1>1. CASE UNCHANGED storeVars
  BY <1>1 DEF storeVars, Followed, CursorsFollow, Writing, ReaderMissesNothing, Events
<1>2. ASSUME NEW t \in Threads,
             BeginFails(t) \/ WriteFails(t) \/ Return(t) \/ \E p \in Payloads : Call(t, p)
      PROVE  Followed'
  <2>1. /\ UNCHANGED << file, sequence, cursor, got, crashes >>
        /\ \A u \in Threads : (Writing(u))' => app'[u] = app[u]
    BY <1>2 DEF BeginFails, WriteFails, Return, Call, IInv, StoreTypeOK, Appending, Writing, Idle
  <2>2. \A u \in Threads : (Writing(u))' => Writing(u) /\ app'[u] = app[u]
    BY <2>1 DEF Writing
  <2>3. \A u \in Threads : app'[u].pc = "begun" => (Writing(u))'
    BY DEF Writing
  <2>4. CursorsFollow'
    BY <2>1, <2>2, <2>3 DEF Followed, CursorsFollow
  <2>5. ReaderMissesNothing'
    BY <2>1 DEF Followed, ReaderMissesNothing, Events
  <2> QED
    BY <2>4, <2>5 DEF Followed
<1>3. ASSUME NEW t \in Threads, AppendStep(t)
      PROVE  Followed'
  <2>1. CASE Begin(t)
    BY <2>1, BeginFollowed
  <2>2. CASE WriteRest(t) \/ \E whole, cut \in BOOLEAN : WritePart(t, whole, cut)
    BY <2>2, WritesSplit, WritesFollowed
  <2> QED
    BY <1>2, <1>3, <2>1, <2>2 DEF AppendStep
<1>4. ASSUME NEW r \in Readers, Poll(r)
      PROVE  Followed'
  BY <1>4, PollFollowed
<1>5. CASE Crash
  <2>1. crashes' # 0
    BY <1>5 DEF Crash, IInv, StoreTypeOK
  <2> QED
    BY <2>1 DEF Followed, CursorsFollow, ReaderMissesNothing
<1> QED
  BY <1>1, <1>2, <1>3, <1>4, <1>5 DEF StoreNext

(* A reader that follows its cursor has every event before it, although it *)
(* takes no lock, reads half-written lines and gets pages of any size.     *)
THEOREM ReadersMissNothing == StoreSpec => []ReaderMissesNothing
<1>1. StoreInit => Followed
  <2> SUFFICES ASSUME StoreInit PROVE Followed
    OBVIOUS
  <2>1. \A t \in Threads : ~ Writing(t) /\ app[t].pc # "begun"
    BY DEF StoreInit, Idle, Writing
  <2>2. Events = {}
    BY DEF StoreInit, Events
  <2> QED
    BY <2>1, <2>2 DEF StoreInit, Followed, CursorsFollow, ReaderMissesNothing
<1>2. IInv /\ Followed /\ [StoreNext]_storeVars => Followed'
  BY NextFollowed
<1>3. Followed => ReaderMissesNothing
  BY DEF Followed
<1> QED
  BY <1>1, <1>2, <1>3, Invariance, PTL DEF StoreSpec

------------------------------------------------------------------------------
(* The phase of a model and its tools. *)
Running   == pc \in { "top", "call" }
Suspended == pc \in { "suspended_for_approval", "suspended_for_tool_result" }

(* The iterations are those of the whole phase: while it runs in the loop, *)
(* while it is suspended in the continuation.                              *)
Counted ==
  /\ made \in 0 .. MaxIterations
  /\ Running => iter = made
  /\ Suspended => \E m, p : cont = [msgs |-> m, pending |-> p, iter |-> made]

LEMMA InitCounted == Init => Counted
  BY ToolLoopAssumption DEF Init, Counted, Running, Suspended

LEMMA StepCounted ==
  ASSUME Counted, Next
  PROVE  Counted'
<1> USE ToolLoopAssumption DEF Counted, Running, Suspended
<1>1. CASE Expire
  BY <1>1 DEF Expire, End
<1>2. CASE LoopLimit
  BY <1>2 DEF LoopLimit, End
<1>3. CASE CallProvider
  BY <1>3 DEF CallProvider
<1>4. CASE ProviderRaises
  BY <1>4 DEF ProviderRaises, End
<1>5. ASSUME NEW error \in BOOLEAN, FinalReply(error)
      PROVE  Counted'
  BY <1>5 DEF FinalReply, End
<1>6. ASSUME NEW tools \in Responses, SuspendForApproval(tools)
      PROVE  Counted'
  <2>1. cont' = [msgs |-> msgs, pending |-> ResponseIds(Len(tools)), iter |-> made]
    BY <1>6 DEF SuspendForApproval, Respond, Continue
  <2>2. pc' = "suspended_for_approval" /\ made' = made
    BY <1>6 DEF SuspendForApproval, Respond
  <2> QED
    BY <2>1, <2>2
<1>7. ASSUME NEW tools \in Responses, SuspendForTool(tools)
      PROVE  Counted'
  <2>1. cont' = [msgs |-> msgs, pending |-> ResponseIds(Len(tools)), iter |-> made]
    BY <1>7 DEF SuspendForTool, Respond, Continue
  <2>2. pc' = "suspended_for_tool_result" /\ made' = made
    BY <1>7 DEF SuspendForTool, Respond
  <2> QED
    BY <2>1, <2>2
<1>8. ASSUME NEW tools \in Responses, RunBackend(tools) \/ AllBlocked(tools)
      PROVE  Counted'
  BY <1>8 DEF RunBackend, AllBlocked, Respond
<1>9. CASE Approve
  <2>1. PICK m, p : cont = [msgs |-> m, pending |-> p, iter |-> made]
    BY <1>9 DEF Approve
  <2>2. cont' = [msgs |-> cont'.msgs, pending |-> {}, iter |-> made]
    BY <1>9, <2>1 DEF Approve
  <2>3. pc' = "suspended_for_tool_result" /\ made' = made
    BY <1>9 DEF Approve
  <2> QED
    BY <2>2, <2>3
<1>10. CASE Deny
  BY <1>10 DEF Deny, End
<1>11. ASSUME NEW results \in SUBSET Ids, Resume(results)
       PROVE  Counted'
  <2>1. cont.iter = made
    BY <1>11 DEF Resume
  <2>2. pc' = "top" /\ iter' = cont.iter /\ made' = made
    BY <1>11 DEF Resume
  <2> QED
    BY <2>1, <2>2
<1> QED
  BY <1>1, <1>2, <1>3, <1>4, <1>5, <1>6, <1>7, <1>8, <1>9, <1>10, <1>11
  DEF Next, LoopStep, ToolCalls, Answered

(* The provider is never called more often than max_iterations in a phase, *)
(* however it is suspended, approved and resumed.                          *)
THEOREM IterationLimit == Spec => []IterationsBounded
<1>1. Counted /\ UNCHANGED vars => Counted'
  BY DEF vars, Counted, Running, Suspended
<1>2. Counted /\ [Next]_vars => Counted'
  BY <1>1, StepCounted
<1>3. Counted => IterationsBounded
  BY ToolLoopAssumption DEF Counted, IterationsBounded
<1> QED
  BY InitCounted, <1>2, <1>3, PTL DEF Spec

------------------------------------------------------------------------------
(* The policy *)

Known(calls) == calls \subseteq 1 .. Len(toolOf)

(* What was run or asked for is of an allowed tool, and what was run, or   *)
(* is asked of a frontend without approval, needs none.                    *)
Kept ==
  /\ toolOf \in Seq(Tools)
  /\ Known(ran) /\ Known(asked)
  /\ PolicyHolds

(* The calls of a response keep what is known of the earlier ones.         *)
LEMMA Appended ==
  ASSUME Kept, NEW tools \in Responses, toolOf' = toolOf \o tools
  PROVE  /\ toolOf' \in Seq(Tools)
         /\ \A i \in 1 .. Len(toolOf) : i \in 1 .. Len(toolOf') /\ toolOf'[i] = toolOf[i]
         /\ \A i \in ResponseIds(Len(tools)) :
              i \in 1 .. Len(toolOf') /\ toolOf'[i] = tools[i - Len(toolOf)]
<1>1. PICK n \in 1 .. MaxCalls : tools \in [1 .. n -> Tools]
  BY DEF Responses
<1>2. tools \in Seq(Tools) /\ Len(tools) = n /\ n \in Nat
  BY <1>1, ToolLoopAssumption
<1>3. toolOf \in Seq(Tools) /\ Len(toolOf) \in Nat
  BY DEF Kept
<1>4. toolOf' \in Seq(Tools) /\ Len(toolOf') = Len(toolOf) + n
  BY <1>2, <1>3, ConcatProperties
<1>5. \A i \in 1 .. Len(toolOf) + n :
        toolOf'[i] = IF i <= Len(toolOf) THEN toolOf[i] ELSE tools[i - Len(toolOf)]
  BY <1>2, <1>3, ConcatProperties
<1>6. \A i \in 1 .. Len(toolOf) : i \in 1 .. Len(toolOf') /\ toolOf'[i] = toolOf[i]
  <2> TAKE i \in 1 .. Len(toolOf)
  <2>1. i \in 1 .. Len(toolOf) + n /\ i <= Len(toolOf)
    BY <1>2, <1>3
  <2> QED
    BY <2>1, <1>4, <1>5
<1>7. \A i \in ResponseIds(Len(tools)) :
        i \in 1 .. Len(toolOf') /\ toolOf'[i] = tools[i - Len(toolOf)]
  <2> TAKE i \in ResponseIds(Len(tools))
  <2>1. i \in 1 .. Len(toolOf) + n /\ ~ (i <= Len(toolOf))
    BY <1>2, <1>3 DEF ResponseIds
  <2> QED
    BY <2>1, <1>4, <1>5
<1> QED
  BY <1>4, <1>6, <1>7

LEMMA StepKept ==
  ASSUME Kept, Next
  PROVE  Kept'
<1> USE ToolLoopAssumption
<1>1. ASSUME NEW tools \in Responses, SuspendForTool(tools)
      PROVE  Kept'
  <2>1. toolOf' = toolOf \o tools /\ ran' = ran \cup ForBackend(tools)
        /\ asked' = ForFrontend(tools) /\ NeedApproval(tools) = {}
    BY <1>1 DEF SuspendForTool
  <2>2. \A i \in ForBackend(tools) \cup ForFrontend(tools) :
          /\ i \in ResponseIds(Len(tools))
          /\ tools[i - Len(toolOf)] \notin BlockedTools \cup ApprovalTools
    BY <2>1 DEF ForBackend, ForFrontend, Allowed, NeedApproval
  <2> QED
    BY <2>1, <2>2, Appended DEF Kept, Known, PolicyHolds
<1>2. ASSUME NEW tools \in Responses, RunBackend(tools)
      PROVE  Kept'
  <2>1. toolOf' = toolOf \o tools /\ ran' = ran \cup ForBackend(tools)
        /\ asked' = asked /\ NeedApproval(tools) = {} /\ pc' = "top"
    BY <1>2 DEF RunBackend
  <2>2. \A i \in ForBackend(tools) :
          /\ i \in ResponseIds(Len(tools))
          /\ tools[i - Len(toolOf)] \notin BlockedTools \cup ApprovalTools
    BY <2>1 DEF ForBackend, Allowed, NeedApproval
  <2> QED
    BY <2>1, <2>2, Appended DEF Kept, Known, PolicyHolds
<1>3. ASSUME NEW tools \in Responses, SuspendForApproval(tools)
      PROVE  Kept'
  <2>1. PICK first \in NeedApproval(tools) : asked' = { first }
    BY <1>3 DEF SuspendForApproval
  <2>2. toolOf' = toolOf \o tools /\ ran' = ran /\ pc' = "suspended_for_approval"
    BY <1>3 DEF SuspendForApproval
  <2>3. first \in ResponseIds(Len(tools)) /\ tools[first - Len(toolOf)] \notin BlockedTools
    BY DEF NeedApproval
  <2> QED
    BY <2>1, <2>2, <2>3, Appended DEF Kept, Known, PolicyHolds
<1>4. CASE Approve
  BY <1>4 DEF Approve, Kept, Known, PolicyHolds
<1>5. ASSUME NEW results \in SUBSET Ids, Resume(results)
      PROVE  Kept'
  BY <1>5 DEF Resume, Kept, Known, PolicyHolds
<1>6. ASSUME \/ Expire \/ LoopLimit \/ CallProvider \/ ProviderRaises \/ Deny
             \/ (\E error \in BOOLEAN : FinalReply(error))
             \/ (\E tools \in Responses : AllBlocked(tools))
      PROVE  Kept'
  <2>1. UNCHANGED << toolOf, ran, asked, approved >> /\ pc' # "suspended_for_tool_result"
    BY <1>6 DEF Expire, LoopLimit, CallProvider, ProviderRaises, Deny, FinalReply,
                AllBlocked, Respond, End
  <2> QED
    BY <2>1 DEF Kept, Known, PolicyHolds
<1> QED
  BY <1>1, <1>2, <1>3, <1>4, <1>5, <1>6 DEF Next, LoopStep, ToolCalls, Answered

(* Whatever the model asks for and however a phase is resumed, a blocked   *)
(* tool is never run nor asked for, and one that needs approval reaches a  *)
(* frontend only when it was approved.                                     *)
THEOREM PolicyIsKept == Spec => []PolicyHolds
<1>1. Init => Kept
  BY DEF Init, Kept, Known, PolicyHolds
<1>2. Kept /\ UNCHANGED vars => Kept'
  BY DEF vars, Kept, Known, PolicyHolds
<1>3. Kept /\ [Next]_vars => Kept'
  BY <1>2, StepKept
<1>4. Kept => PolicyHolds
  BY DEF Kept
<1> QED
  BY <1>1, <1>3, <1>4, PTL DEF Spec

------------------------------------------------------------------------------
(* The messages *)

(* Some call of the sequence asked for all of these.                       *)
Called(s, calls) ==
  \E k \in 1 .. Len(s) : s[k].role = "assistant" /\ calls \subseteq s[k].calls

(* Answers follow their calls, but for those to ids of x. *)
Follows(s, x) ==
  \A n \in 1 .. Len(s) : s[n].role = "tool" =>
     \/ s[n].calls \subseteq x
     \/ \E m \in 1 .. n - 1 :
          s[m].role = "assistant" /\ s[n].calls \subseteq s[m].calls

(* A phase that waits for results finds the calls they answer: as the      *)
(* pending calls, which Resume puts back, or, once the operator approved   *)
(* one, in the messages of the continuation.                               *)
Answerable ==
  pc = "suspended_for_tool_result" =>
    \/ cont.pending # {} /\ asked \subseteq cont.pending
    \/ Called(cont.msgs, asked)

MInv == TypeOK /\ Follows(msgs, stray) /\ Follows(cont.msgs, stray) /\ Answerable

LEMMA AnswersAreOne ==
  ASSUME NEW calls \in SUBSET Ids
  PROVE  /\ Answers(calls) \in Seq(Message)
         /\ \A i \in 1 .. Len(Answers(calls)) :
              /\ Answers(calls)[i].role = "tool"
              /\ \E c \in calls : Answers(calls)[i].calls = { c }
<1> DEFINE n == Cardinality(calls)
           f == SetToSeq(calls)
<1>1. IsFiniteSet(calls)
  <2>1. 1 \in Int /\ MaxIds \in Int
    BY ToolLoopAssumption
  <2>2. IsFiniteSet(Ids)
    BY <2>1, FS_Interval DEF Ids
  <2> QED
    BY <2>2, FS_Subset
<1>2. n \in Nat /\ ExistsBijection(1 .. n, calls)
  BY <1>1, FS_CardinalityType
<1>3. \E g \in [1 .. n -> calls] : IsInjective(g)
  BY <1>2 DEF ExistsBijection, Bijection, Injection
<1>4. f \in [1 .. n -> calls]
  BY <1>3 DEF SetToSeq
<1>5. Answers(calls) = [i \in 1 .. n |-> [role |-> "tool", calls |-> { f[i] }]]
  BY DEF Answers
<1> HIDE DEF n, f
<1>6. \A i \in 1 .. n : f[i] \in calls
  BY <1>4
<1>7. Answers(calls) \in Seq(Message) /\ Len(Answers(calls)) = n
  BY <1>2, <1>5, <1>6 DEF Message
<1>8. ASSUME NEW i \in 1 .. n
      PROVE  /\ Answers(calls)[i].role = "tool"
             /\ \E c \in calls : Answers(calls)[i].calls = { c }
  <2>1. Answers(calls)[i] = [role |-> "tool", calls |-> { f[i] }]
    BY <1>5
  <2> QED
    BY <1>6, <2>1
<1> QED
  BY <1>7, <1>8

(* A request may be appended to messages, and then its answers.            *)
LEMMA RequestAppended ==
  ASSUME NEW s \in Seq(Message), NEW x, Follows(s, x), NEW calls \in SUBSET Ids
  PROVE  /\ Append(s, Request(calls)) \in Seq(Message)
         /\ Follows(Append(s, Request(calls)), x)
         /\ Called(Append(s, Request(calls)), calls)
<1> DEFINE t == Append(s, Request(calls))
<1>1. Request(calls) \in Message /\ Request(calls).role = "assistant"
      /\ Request(calls).calls = calls
  BY DEF Request, Message
<1>2. /\ t \in Seq(Message) /\ Len(t) = Len(s) + 1 /\ Len(s) \in Nat
      /\ \A i \in 1 .. Len(s) : t[i] = s[i]
      /\ t[Len(s) + 1] = Request(calls)
  BY <1>1, AppendProperties
<1> HIDE DEF t
<1>3. Called(t, calls)
  <2>1. Len(s) + 1 \in 1 .. Len(t)
    BY <1>2
  <2> QED
    BY <1>1, <1>2, <2>1 DEF Called
<1>4. ASSUME NEW n \in 1 .. Len(t), t[n].role = "tool"
      PROVE  \/ t[n].calls \subseteq x
             \/ \E m \in 1 .. n - 1 : t[m].role = "assistant" /\ t[n].calls \subseteq t[m].calls
  <2>1. n \in 1 .. Len(s) /\ t[n] = s[n]
    BY <1>1, <1>2, <1>4
  <2>2. CASE ~ (s[n].calls \subseteq x)
    <3>1. PICK m \in 1 .. n - 1 : s[m].role = "assistant" /\ s[n].calls \subseteq s[m].calls
      BY <1>4, <2>1, <2>2 DEF Follows
    <3>2. m \in 1 .. Len(s)
      BY <1>2, <2>1
    <3> QED
      BY <1>2, <2>1, <3>1, <3>2
  <2> QED
    BY <2>1, <2>2
<1> QED
  BY <1>2, <1>3, <1>4 DEF Follows, t

LEMMA AnswersAppended ==
  ASSUME NEW s \in Seq(Message), NEW x, Follows(s, x), NEW calls \in SUBSET Ids,
         calls \ x # {} => Called(s, calls \ x)
  PROVE  s \o Answers(calls) \in Seq(Message) /\ Follows(s \o Answers(calls), x)
<1> DEFINE a == Answers(calls)
           t == s \o a
<1>1. /\ a \in Seq(Message) /\ Len(a) \in Nat
      /\ \A i \in 1 .. Len(a) :
           a[i].role = "tool" /\ \E c \in calls : a[i].calls = { c }
  BY AnswersAreOne
<1> HIDE DEF a
<1>3. /\ t \in Seq(Message) /\ Len(t) = Len(s) + Len(a) /\ Len(s) \in Nat
      /\ \A i \in 1 .. Len(s) + Len(a) : t[i] = IF i <= Len(s) THEN s[i] ELSE a[i - Len(s)]
  BY <1>1, ConcatProperties
<1> HIDE DEF t
<1>4. \A i \in 1 .. Len(s) : t[i] = s[i]
  BY <1>1, <1>3
<1>5. ASSUME NEW n \in 1 .. Len(t), t[n].role = "tool"
      PROVE  \/ t[n].calls \subseteq x
             \/ \E m \in 1 .. n - 1 : t[m].role = "assistant" /\ t[n].calls \subseteq t[m].calls
  <2>1. CASE n <= Len(s) /\ ~ (t[n].calls \subseteq x)
    <3>1. n \in 1 .. Len(s) /\ t[n] = s[n]
      BY <1>3, <1>4, <2>1
    <3>2. PICK m \in 1 .. n - 1 : s[m].role = "assistant" /\ s[n].calls \subseteq s[m].calls
      BY <1>5, <2>1, <3>1 DEF Follows
    <3>3. m \in 1 .. Len(s)
      BY <1>3, <3>1, <3>2
    <3> QED
      BY <1>4, <3>1, <3>2, <3>3
  <2>2. CASE ~ (n <= Len(s))
    <3>1. n - Len(s) \in 1 .. Len(a) /\ t[n] = a[n - Len(s)]
      BY <1>1, <1>3, <2>2
    <3>2. PICK c \in calls : t[n].calls = { c }
      BY <1>1, <3>1
    <3>3. CASE c \notin x
      <4>1. PICK k \in 1 .. Len(s) : s[k].role = "assistant" /\ calls \ x \subseteq s[k].calls
        BY <3>3 DEF Called
      <4>2. k \in 1 .. n - 1
        BY <1>1, <1>3, <2>2
      <4> QED
        BY <1>4, <3>2, <3>3, <4>1, <4>2
    <3> QED
      BY <3>2, <3>3
  <2> QED
    BY <2>1, <2>2
<1> QED
  BY <1>3, <1>5 DEF Follows, t, a

LEMMA InitMessages == Init => MInv
<1> SUFFICES ASSUME Init PROVE MInv
  OBVIOUS
<1>1. TypeOK
  BY ToolLoopAssumption DEF Init, TypeOK, States, NoContinuation, Continuation
<1> QED
  BY <1>1 DEF Init, MInv, Follows, Answerable, NoContinuation

(* What a response adds to the calls made, and what a suspension keeps.    *)
LEMMA ResponseIdsAreIds ==
  ASSUME TypeOK, NEW tools \in Responses, Respond(tools)
  PROVE  /\ ResponseIds(Len(tools)) \subseteq Ids
         /\ toolOf \o tools \in Seq(Tools)
         /\ Len(toolOf \o tools) <= MaxIds
<1>1. PICK n \in 1 .. MaxCalls : tools \in [1 .. n -> Tools]
  BY DEF Responses
<1>2. tools \in Seq(Tools) /\ Len(tools) \in Nat
  BY <1>1, ToolLoopAssumption
<1>3. toolOf \in Seq(Tools) /\ Len(toolOf) \in Nat /\ Len(toolOf) + Len(tools) <= MaxIds
  BY DEF TypeOK, Respond
<1>4. toolOf \o tools \in Seq(Tools) /\ Len(toolOf \o tools) = Len(toolOf) + Len(tools)
  BY <1>2, <1>3, ConcatProperties
<1>5. ResponseIds(Len(tools)) \subseteq Ids
  BY <1>2, <1>3, ToolLoopAssumption DEF ResponseIds, Ids
<1> QED
  BY <1>3, <1>4, <1>5

LEMMA StepMessages ==
  ASSUME MInv, Next
  PROVE  MInv'
<1>1. TypeOK /\ Follows(msgs, stray) /\ Follows(cont.msgs, stray) /\ Answerable
  BY DEF MInv
<1>2. cont \in Continuation /\ cont.msgs \in Seq(Message) /\ asked \in SUBSET Ids
      /\ msgs \in Seq(Message) /\ cont.pending \in SUBSET Ids
  BY <1>1 DEF TypeOK, Continuation
<1>3. ASSUME \/ Expire \/ LoopLimit \/ CallProvider \/ ProviderRaises \/ Deny
             \/ (\E error \in BOOLEAN : FinalReply(error))
             \/ (\E tools \in Responses : AllBlocked(tools))
      PROVE  MInv'
  <2>1. /\ UNCHANGED << msgs, offered, cont, asked, toolOf, ran, approved, stray, legs >>
        /\ pc' \in { "top", "call", "completed", "failed" }
        /\ iter' \in Nat /\ usage' \in Nat /\ errors' \in Nat /\ made' \in Nat
    BY SMTT(30), <1>1, <1>3 DEF Expire, LoopLimit, CallProvider, ProviderRaises, Deny, FinalReply,
                      AllBlocked, Respond, End, TypeOK
  <2>2. TypeOK'
    BY <1>1, <2>1 DEF TypeOK, States
  <2> QED
    BY <1>1, <2>1, <2>2 DEF MInv, Answerable
<1>4. ASSUME NEW tools \in Responses, SuspendForApproval(tools) \/ SuspendForTool(tools)
      PROVE  MInv'
  <2>1. Respond(tools)
    BY <1>4 DEF SuspendForApproval, SuspendForTool
  <2>2. /\ ResponseIds(Len(tools)) \subseteq Ids
        /\ toolOf \o tools \in Seq(Tools) /\ Len(toolOf \o tools) <= MaxIds
    BY <1>1, <2>1, ResponseIdsAreIds
  <2>3. /\ cont' = [msgs |-> msgs, pending |-> ResponseIds(Len(tools)), iter |-> iter]
        /\ toolOf' = toolOf \o tools
        /\ UNCHANGED << msgs, iter, offered, approved, errors, made, stray, legs >>
        /\ usage' = usage + 1
    BY <1>4, <2>1 DEF SuspendForApproval, SuspendForTool, Respond, Continue
  <2>4. /\ asked' \subseteq ResponseIds(Len(tools))
        /\ ran' \subseteq ran \cup ResponseIds(Len(tools))
        /\ pc' \in { "suspended_for_approval", "suspended_for_tool_result" }
        /\ asked' # {}
    BY <1>4 DEF SuspendForApproval, SuspendForTool, ForFrontend, ForBackend, Allowed,
                NeedApproval
  <2>5. cont' \in Continuation /\ cont'.msgs = msgs
        /\ cont'.pending = ResponseIds(Len(tools))
    BY <1>1, <1>2, <2>2, <2>3 DEF Continuation, TypeOK
  <2>6. TypeOK'
    BY <1>1, <2>2, <2>3, <2>4, <2>5 DEF TypeOK, States
  <2>7. Answerable'
    BY <2>4, <2>5 DEF Answerable
  <2> QED
    BY <1>1, <2>3, <2>5, <2>6, <2>7 DEF MInv
<1>5. ASSUME NEW tools \in Responses, RunBackend(tools)
      PROVE  MInv'
  <2> DEFINE calls == ForBackend(tools)
             t == Append(msgs, Request(calls))
  <2>1. /\ ResponseIds(Len(tools)) \subseteq Ids
        /\ toolOf \o tools \in Seq(Tools) /\ Len(toolOf \o tools) <= MaxIds
    BY <1>1, <1>5, ResponseIdsAreIds DEF RunBackend
  <2>2. calls \in SUBSET Ids
    BY <2>1 DEF ForBackend, Allowed
  <2>3. t \in Seq(Message) /\ Follows(t, stray) /\ Called(t, calls)
    BY <1>1, <1>2, <2>2, RequestAppended
  <2>4. t \o Answers(calls) \in Seq(Message) /\ Follows(t \o Answers(calls), stray)
    BY <2>2, <2>3, AnswersAppended DEF Called
  <2>5. /\ msgs' = t \o Answers(calls)
        /\ toolOf' = toolOf \o tools /\ ran' = ran \cup calls
        /\ pc' = "top" /\ usage' = usage + 1
        /\ UNCHANGED << iter, offered, cont, asked, approved, errors, made, stray, legs >>
    BY <1>5 DEF RunBackend, Respond
  <2> HIDE DEF calls, t
  <2>6. TypeOK'
    BY <1>1, <2>1, <2>2, <2>4, <2>5 DEF TypeOK, States
  <2> QED
    BY <1>1, <2>4, <2>5, <2>6 DEF MInv, Answerable
<1>6. CASE Approve
  <2> DEFINE t == Append(cont.msgs, Request(asked))
  <2>1. t \in Seq(Message) /\ Follows(t, stray) /\ Called(t, asked)
    BY <1>1, <1>2, RequestAppended
  <2>2. t \o Answers(asked) \in Seq(Message) /\ Follows(t \o Answers(asked), stray)
    BY <1>2, <2>1, AnswersAppended DEF Called
  <2>3. cont' = [cont EXCEPT !.msgs = t \o Answers(asked), !.pending = {}]
    BY <1>6 DEF Approve
  <2>4. /\ approved' = approved \cup asked
        /\ pc' = "suspended_for_tool_result"
        /\ UNCHANGED << msgs, iter, offered, asked, toolOf, ran, usage, errors, made,
                      stray, legs >>
    BY <1>6 DEF Approve
  <2>5. Called(t \o Answers(asked), asked)
    <3> DEFINE a == Answers(asked)
    <3>1. a \in Seq(Message) /\ Len(a) \in Nat
      BY <1>2, AnswersAreOne
    <3>2. PICK k \in 1 .. Len(t) : t[k].role = "assistant" /\ asked \subseteq t[k].calls
      BY <2>1 DEF Called
    <3> HIDE DEF a, t
    <3>3. /\ Len(t \o a) = Len(t) + Len(a) /\ Len(t) \in Nat
          /\ \A i \in 1 .. Len(t) + Len(a) :
               (t \o a)[i] = IF i <= Len(t) THEN t[i] ELSE a[i - Len(t)]
      BY <2>1, <3>1, ConcatProperties
    <3>4. k \in 1 .. Len(t) + Len(a) /\ k <= Len(t)
      BY <3>1, <3>3
    <3> QED
      BY <3>2, <3>3, <3>4 DEF Called, a
  <2> HIDE DEF t
  <2>6. cont' \in Continuation /\ cont'.msgs = t \o Answers(asked)
    BY <1>2, <2>2, <2>3 DEF Continuation
  <2>7. TypeOK'
    BY <1>1, <2>4, <2>6 DEF TypeOK, States
  <2> QED
    BY <1>1, <2>2, <2>4, <2>5, <2>6, <2>7 DEF MInv, Answerable
<1>7. ASSUME NEW results \in SUBSET Ids, Resume(results)
      PROVE  MInv'
  <2> DEFINE t == IF cont.pending = {} THEN cont.msgs
                  ELSE Append(cont.msgs, Request(cont.pending))
           mine == results \ stray'
  <2>1. /\ stray' = stray \cup (results \ asked)
        /\ mine \subseteq asked
        /\ Follows(cont.msgs, stray')
    BY <1>1, <1>7 DEF Resume, Follows
  <2>2. t \in Seq(Message) /\ Follows(t, stray') /\ (mine # {} => Called(t, mine))
    <3>1. pc = "suspended_for_tool_result"
      BY <1>7 DEF Resume
    <3>2. CASE cont.pending = {}
      BY <1>1, <1>2, <2>1, <3>1, <3>2 DEF Answerable, Called
    <3>3. CASE cont.pending # {}
      <4>1. t \in Seq(Message) /\ Follows(t, stray') /\ Called(t, cont.pending)
        BY <1>2, <2>1, <3>3, RequestAppended
      <4>2. CASE asked \subseteq cont.pending
        BY <2>1, <4>1, <4>2 DEF Called
      <4>3. CASE Called(cont.msgs, asked)
        <5>1. PICK k \in 1 .. Len(cont.msgs) :
                cont.msgs[k].role = "assistant" /\ asked \subseteq cont.msgs[k].calls
          BY <4>3 DEF Called
        <5>2. /\ Len(t) = Len(cont.msgs) + 1 /\ Len(cont.msgs) \in Nat
              /\ \A i \in 1 .. Len(cont.msgs) : t[i] = cont.msgs[i]
          BY <1>2, <3>3, AppendProperties DEF Request, Message
        <5>3. k \in 1 .. Len(t) /\ t[k] = cont.msgs[k]
          BY <5>1, <5>2
        <5>4. Called(t, mine)
          BY <2>1, <5>1, <5>3 DEF Called
        <5> QED
          BY <4>1, <5>4
      <4> QED
        BY <1>1, <3>1, <4>1, <4>2, <4>3 DEF Answerable
    <3> QED
      BY <3>2, <3>3
  <2>3. t \o Answers(results) \in Seq(Message) /\ Follows(t \o Answers(results), stray')
    BY <1>7, <2>2, AnswersAppended
  <2>4. /\ msgs' = t \o Answers(results)
        /\ iter' = cont.iter /\ legs' = legs + 1 /\ legs < MaxLegs
        /\ offered' = FALSE /\ usage' = 0 /\ asked' = {} /\ pc' = "top"
        /\ UNCHANGED << cont, toolOf, ran, approved, errors, made >>
    BY <1>7 DEF Resume
  <2> HIDE DEF t, mine
  <2>5. cont.iter \in Nat
    BY <1>2 DEF Continuation
  <2>6. legs + 1 \in 0 .. MaxLegs
    BY <1>1, <2>4, ToolLoopAssumption DEF TypeOK
  <2>7. TypeOK'
    BY <1>1, <1>7, <2>1, <2>3, <2>4, <2>5, <2>6 DEF TypeOK, States
  <2> QED
    BY <1>1, <2>1, <2>3, <2>4, <2>7 DEF MInv, Answerable
<1> QED
  BY <1>3, <1>4, <1>5, <1>6, <1>7 DEF Next, LoopStep, ToolCalls, Answered

LEMMA MessagesInvariance == Spec => []MInv
<1>1. MInv /\ UNCHANGED vars => MInv'
  BY DEF vars, MInv, TypeOK, Follows, Answerable, Called
<1>2. MInv /\ [Next]_vars => MInv'
  BY <1>1, StepMessages
<1> QED
  BY InitMessages, <1>2, PTL DEF Spec

(* The loop's state, its messages and its continuation keep their shape.   *)
THEOREM LoopIsTyped == Spec => []TypeOK
<1>1. MInv => TypeOK
  BY DEF MInv
<1> QED
  BY <1>1, MessagesInvariance, PTL

(* The provider is never shown an answer before the call it answers, but   *)
(* for answers to ids no suspension asked for, whatever part of the        *)
(* results a client sends, whatever it adds and whatever is approved.      *)
THEOREM AnswersFollow == Spec => []AnswersFollowCalls
<1>1. MInv => AnswersFollowCalls
  BY DEF MInv, Follows, AnswersFollowCalls
<1> QED
  BY <1>1, MessagesInvariance, PTL
==============================================================================
