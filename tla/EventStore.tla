------------------------------ MODULE EventStore ------------------------------
(***************************************************************************)
(* The event log of one operation (operation_controller/event_store.py):   *)
(* an append-only file of one line per event, written under a lock of the  *)
(* process and read by clients that poll with a cursor and take no lock.   *)
(*                                                                         *)
(* A line reaches the file in pieces, so that a reader, a failed write or  *)
(* the death of the process can find it torn, with or without the whole of *)
(* its JSON, between two characters or inside one: payloads are written as *)
(* UTF-8, and a file cut inside a character cannot be decoded at all.      *)
(* Whatever is appended to a torn line becomes part of it.                 *)
(***************************************************************************)
EXTENDS Naturals, Sequences, FiniteSets, SequencesExt

CONSTANTS
  Threads,      \* handler threads that append
  Readers,      \* clients that poll read_after
  Payloads,     \* payload kinds: "plain", or "separator" for a payload with a
                \* character that splitlines takes for the end of a line
  None,         \* no holder of the lock
  Limit,        \* events one poll returns
  MaxEvents,    \* bound: appends begun
  MaxFailures,  \* bound: writes that raise
  MaxCrashes    \* bound: restarts of the process

ASSUME EventStoreAssumption ==
  /\ None \notin Threads
  /\ Payloads \subseteq { "plain", "separator" }
  /\ Limit \in Nat \ { 0 }
  /\ MaxEvents \in Nat /\ MaxFailures \in Nat /\ MaxCrashes \in Nat

VARIABLES
  file,      \* the lines of <operation_id>.events.jsonl
  lock,      \* holder of the operation's lock, or None
  sequence,  \* the in-memory counter; 0 when it is not loaded
  app,       \* the append each thread is doing
  cursor,    \* the last sequence each reader has been given
  got,       \* the events each reader has been given
  acked,     \* the events append returned to its caller
  begun, failures, crashes

storeVars == << file, lock, sequence, app, cursor, got, acked, begun, failures, crashes >>

(* id numbers the appends, so that two events with one sequence number     *)
(* differ.  A line is pure when it holds bytes of one event only, whole    *)
(* when it holds all of that event's JSON, ended when its newline is there,*)
(* and cut when a character in it is not complete.                         *)
Line == [id : 1 .. MaxEvents, seq : Nat \ { 0 }, pure : BOOLEAN,
         whole : BOOLEAN, ended : BOOLEAN, cut : BOOLEAN]

Appending == [pc : { "idle", "wait", "begun", "part", "done" }, id : 0 .. MaxEvents,
            seq : Nat, payload : Payloads \cup { None }]

Idle == [pc |-> "idle", id |-> 0, seq |-> 0, payload |-> None]

------------------------------------------------------------------------------
IsValid(line) == line.pure /\ line.whole

(* read_text decodes the whole file, outside of the try that skips a line: *)
(* one cut character makes every read raise, whichever line it is in.      *)
Decodable == \A i \in 1 .. Len(file) : ~ file[i].cut

(* _read_raw of a file it can decode: the events are the valid lines, in   *)
(* the order of the file.  An event is named by the number of its line.    *)
Events == { i \in 1 .. Len(file) : IsValid(file[i]) }

(* Mutant: the counter is never ahead of the file. *)
NextSequenceFromFile ==
  IF Events = {} THEN 1 ELSE file[Max(Events)].seq

(* _next_sequence *)
NextSequence ==
  IF sequence # 0 THEN sequence
  ELSE IF Events = {} THEN 1 ELSE file[Max(Events)].seq + 1

(* Bytes of an event arrive at the end of the file: a line of their own, or *)
(* the continuation of a torn one.  The rest of its own event completes a   *)
(* character that was cut; the bytes of another event do not.               *)
Arrive(line) ==
  IF file # << >> /\ ~Last(file).ended
  THEN [file EXCEPT ![Len(file)] =
          [line EXCEPT !.pure = Last(file).pure /\ Last(file).id = line.id,
                       !.cut  = @ \/ (Last(file).cut /\ Last(file).id # line.id)]]
  ELSE Append(file, line)

(* append is called, and waits for the lock. *)
Call(t, payload) ==
  /\ app[t].pc = "idle"
  /\ begun < MaxEvents
  /\ begun' = begun + 1
  /\ app' = [app EXCEPT ![t] = [pc |-> "wait", id |-> begun + 1, seq |-> 0,
                                payload |-> payload]]
  /\ UNCHANGED << file, lock, sequence, cursor, got, acked, failures, crashes >>

(* Mutant: the lock is not taken. *)
BeginUnlocked(t) ==
  /\ app[t].pc = "wait"
  /\ sequence' = NextSequence + 1
  /\ app' = [app EXCEPT ![t].pc = "begun", ![t].seq = NextSequence]
  /\ UNCHANGED << file, lock, cursor, got, acked, begun, failures, crashes >>

(* A counter that is not loaded is read from the file. *)
CanNumber == sequence # 0 \/ Decodable

(* with lock: take the next sequence number and open the file. *)
Begin(t) ==
  /\ app[t].pc = "wait"
  /\ lock = None
  /\ CanNumber
  /\ lock' = t
  /\ sequence' = NextSequence + 1
  /\ app' = [app EXCEPT ![t].pc = "begun", ![t].seq = NextSequence]
  /\ UNCHANGED << file, cursor, got, acked, begun, failures, crashes >>

(* The file that holds the last number cannot be decoded: append raises.  *)
BeginFails(t) ==
  /\ app[t].pc = "wait"
  /\ lock = None
  /\ ~ CanNumber
  /\ app' = [app EXCEPT ![t] = Idle]
  /\ UNCHANGED << file, lock, sequence, cursor, got, acked, begun, failures, crashes >>

(* Some bytes of the line reach the file: all but the newline when whole,  *)
(* and perhaps the first bytes only of a character.                        *)
WritePart(t, whole, cut) ==
  /\ app[t].pc = "begun"
  /\ whole => app[t].payload = "plain" /\ ~ cut
  /\ file' = Arrive([id |-> app[t].id, seq |-> app[t].seq, pure |-> TRUE,
                     whole |-> whole, ended |-> FALSE, cut |-> cut])
  /\ app' = [app EXCEPT ![t].pc = "part"]
  /\ UNCHANGED << lock, sequence, cursor, got, acked, begun, failures, crashes >>

(* The rest of the line does; a separator leaves no line that can be read. *)
WriteRest(t) ==
  /\ app[t].pc \in { "begun", "part" }
  /\ file' = Arrive([id |-> app[t].id, seq |-> app[t].seq, pure |-> TRUE,
                     whole |-> app[t].payload = "plain", ended |-> TRUE,
                     cut |-> FALSE])
  /\ app' = [app EXCEPT ![t].pc = "done"]
  /\ UNCHANGED << lock, sequence, cursor, got, acked, begun, failures, crashes >>

(* write or flush raises (a full disk): the lock is released all the same. *)
WriteFails(t) ==
  /\ app[t].pc \in { "begun", "part" }
  /\ failures < MaxFailures
  /\ failures' = failures + 1
  /\ lock' = None
  /\ app' = [app EXCEPT ![t] = Idle]
  /\ UNCHANGED << file, sequence, cursor, got, acked, begun, crashes >>

(* append returns the event. *)
Return(t) ==
  /\ app[t].pc = "done"
  /\ lock' = None
  /\ acked' = acked \cup { [id |-> app[t].id, seq |-> app[t].seq,
                            payload |-> app[t].payload] }
  /\ app' = [app EXCEPT ![t] = Idle]
  /\ UNCHANGED << file, sequence, cursor, got, begun, failures, crashes >>

After(n) == { i \in Events : file[i].seq > n }

(* Mutant: the page is the last Limit events, not the first. *)
ReadAfterNewest(after) ==
  { i \in After(after) : Cardinality({ j \in After(after) : j > i }) < Limit }

(* read_after: the first Limit events after the cursor. *)
ReadAfter(after) ==
  { i \in After(after) : Cardinality({ j \in After(after) : j < i }) < Limit }

(* A client polls, and moves its cursor to the last event it was given.    *)
(* A poll that raises, or finds nothing new, changes nothing.              *)
Poll(r) ==
  LET page == ReadAfter(cursor[r])
  IN /\ Decodable
     /\ page # {}
     /\ cursor' = [cursor EXCEPT ![r] = file[Max(page)].seq]
     /\ got' = [got EXCEPT ![r] = @ \cup { file[i].id : i \in page }]
     /\ UNCHANGED << file, lock, sequence, app, acked, begun, failures, crashes >>

(* The process dies: locks and counters are gone, the file stays. *)
Crash ==
  /\ crashes < MaxCrashes
  /\ \/ sequence # 0
     \/ \E t \in Threads : app[t].pc # "idle"
  /\ crashes' = crashes + 1
  /\ lock' = None
  /\ sequence' = 0
  /\ app' = [t \in Threads |-> Idle]
  /\ UNCHANGED << file, cursor, got, acked, begun, failures >>

StoreInit ==
  /\ file = << >>
  /\ lock = None
  /\ sequence = 0
  /\ app = [t \in Threads |-> Idle]
  /\ cursor = [r \in Readers |-> 0]
  /\ got = [r \in Readers |-> {}]
  /\ acked = {}
  /\ begun = 0
  /\ failures = 0
  /\ crashes = 0

AppendStep(t) ==
  \/ Begin(t)
  \/ BeginFails(t)
  \/ \E whole, cut \in BOOLEAN : WritePart(t, whole, cut)
  \/ WriteRest(t)
  \/ WriteFails(t)
  \/ Return(t)

StoreNext ==
  \/ \E t \in Threads : AppendStep(t) \/ \E p \in Payloads : Call(t, p)
  \/ \E r \in Readers : Poll(r)
  \/ Crash

StoreSpec == StoreInit /\ [][StoreNext]_storeVars

(* A thread inside append is scheduled, and clients poll again and again.   *)
(* The lock is not assumed to be fair: a waiting thread gets it when it     *)
(* stays free, as it does once the others have appended what they had to.   *)
FairStoreSpec ==
  /\ StoreSpec
  /\ \A t \in Threads : WF_storeVars(AppendStep(t))
  /\ \A r \in Readers : WF_storeVars(Poll(r))

------------------------------------------------------------------------------
(* Properties *)

(* The log, its lock and the readers have the shape the code gives them. *)
StoreTypeOK ==
  /\ file \in Seq(Line)
  /\ lock \in Threads \cup { None }
  /\ sequence \in Nat
  /\ app \in [Threads -> Appending]
  /\ cursor \in [Readers -> Nat]
  /\ got \in [Readers -> SUBSET (1 .. MaxEvents)]
  /\ acked \subseteq [id : 1 .. MaxEvents, seq : Nat \ { 0 }, payload : Payloads]
  /\ begun \in 0 .. MaxEvents
  /\ failures \in 0 .. MaxFailures
  /\ crashes \in 0 .. MaxCrashes

(* "Monotonically sequenced per operation": the events a reader can read   *)
(* are in increasing order of sequence, whatever was torn or restarted.    *)
SequencesIncrease ==
  \A i, j \in Events : i < j => file[i].seq < file[j].seq

(* An event that append returned is found by every later read, unless its  *)
(* payload splits its own line, and a read raises only while a line is     *)
(* being written.  A torn line swallows the next one and may be cut inside *)
(* a character, so this is promised only as long as no write failed and    *)
(* the process lived.                                                      *)
AcknowledgedIsReadable ==
  failures = 0 /\ crashes = 0 =>
     /\ \A a \in acked : a.payload = "plain" =>
          \E i \in Events : file[i].id = a.id
     /\ ~ Decodable => \E t \in Threads : app[t].pc = "part"

(* No two events that append returned have one sequence number.            *)
SequenceNeverReused ==
  \A a, b \in acked : a.seq = b.seq => a.id = b.id

(* A reader that follows its cursor has been given every event before it,  *)
(* although it reads while lines are written, or are left torn by a failed *)
(* write, and takes pages of Limit.  A restart gives the number of a lost  *)
(* event again, so this is promised within one life of the process.        *)
ReaderMissesNothing ==
  crashes = 0 =>
     \A r \in Readers : \A i \in Events :
        file[i].seq <= cursor[r] => file[i].id \in got[r]

(* A failed write or the death of the process left a character cut, and    *)
(* nobody will complete it: no event of the operation is read again.       *)
Spoiled ==
  \E i \in 1 .. Len(file) :
    /\ file[i].cut
    /\ ~ \E t \in Threads : app[t].pc = "part" /\ app[t].id = file[i].id

(* Every event whose line is complete and readable reaches every reader,   *)
(* in the life of the process that wrote it, although reads raise while a  *)
(* line is cut and torn lines stay behind, unless one stays cut for good.  *)
EventsAreDelivered ==
  \A r \in Readers : \A n \in 1 .. MaxEvents :
     (\E i \in Events : file[i].id = n /\ file[i].ended)
       ~> n \in got[r] \/ crashes > 0 \/ Spoiled

==============================================================================
