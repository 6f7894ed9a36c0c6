-------------------------- MODULE CrawlTaskProofs --------------------------
(***************************************************************************)
(* The safety properties of CrawlTask for any number of jobs and pollers,  *)
(* in one process or in several, and any times to live.                    *)
(*                                                                         *)
(* What makes them inductive is who may still write: a job that has not    *)
(* finished keeps a whole record that says "processing"; a record that     *)
(* Redis or a poll is about to drop is finished; and in one process a poll *)
(* is never between its two commands while a job is between its own.       *)
(***************************************************************************)
EXTENDS CrawlTask, TLAPS

Finished(t) == Exists(t) => record[t]["status"] \in Terminal

\* What one record looks like.
Payload(h) ==
    /\ h["status"] = "completed" =>
          "result" \in DOMAIN h /\ h["result"] = "content"
    /\ h["status"] = "failed" =>
          "error" \in DOMAIN h /\ h["error"] = "message"
Sound(h) ==
    /\ DOMAIN h \subseteq Field
    /\ "status" \in DOMAIN h
    /\ h["status"] \in TaskStatus
    /\ Payload(h)
RecordsSound ==
    /\ DOMAIN record = Task
    /\ \A t \in Task : Exists(t) => Sound(record[t])

RangesOK ==
    /\ ttl \in [Task -> 1..Never]
    /\ age \in [Task -> 0..(CLEANUP + 1)]
    /\ pc \in [Task -> PC]
    /\ crawled \in [Task -> BOOLEAN]
    /\ polling \in [Client -> Task \cup {NoTask}]
    /\ answer \in [Task -> Answer]
    /\ shared \in BOOLEAN

\* Before, during and after the crawl.
NotYet ==
    \A t \in Task : pc[t] = "none" =>
        /\ ~Exists(t)
        /\ ttl[t] = Never
        /\ \A c \in Client : polling[c] # t
Unfinished ==
    \A t \in Task : pc[t] \in {"queued", "crawling"} =>
        /\ Exists(t)
        /\ record[t]["status"] = "processing"
        /\ Whole(record[t])
CrawlIsOver == \A t \in Task : pc[t] = "completed" => Finished(t)

\* Only finished records are dropped.
ExpiresFinished == \A t \in Task : ttl[t] # Never => Finished(t)
DeletesFinished ==
    \A c \in Client : \A t \in Task : polling[c] = t => Finished(t)

\* One process.
OneAtATime ==
    ~shared => ~ \E t \in Task, c \in Client :
                    pc[t] \in InLoop /\ polling[c] # NoTask
StaysWhole ==
    ~shared => \A t \in Task :
                  /\ Exists(t) => Whole(record[t])
                  /\ pc[t] \in InLoop => Exists(t)

Phases == NotYet /\ Unfinished /\ CrawlIsOver
Drops == ExpiresFinished /\ DeletesFinished
Inv == RecordsSound /\ RangesOK /\ Phases /\ Drops /\ OneAtATime /\ StaysWhole

\* HSET of some fields: they are set, the other fields stay.
LEMMA MergeFacts ==
    ASSUME NEW h, NEW fields
    PROVE  /\ DOMAIN Merge(h, fields) = DOMAIN h \cup DOMAIN fields
           /\ \A f \in DOMAIN fields : Merge(h, fields)[f] = fields[f]
  BY DEF Merge

\* The three HSETs of a job leave a sound record with the status they set, and
\* a whole one if it was whole.
LEMMA HSetSound ==
    ASSUME NEW h, DOMAIN h \subseteq Field,
           NEW fields, fields \in {NewRecord, Completed, Failed}
    PROVE  LET m == Merge(h, fields)
           IN  /\ m # Absent
               /\ Sound(m)
               /\ m["status"] = fields["status"]
               /\ Whole(h) \/ fields = NewRecord => Whole(m)
  <1> DEFINE m == Merge(h, fields)
  <1>1. /\ DOMAIN m = DOMAIN h \cup DOMAIN fields
        /\ \A f \in DOMAIN fields : m[f] = fields[f]
    BY MergeFacts
  <1>2. DOMAIN Absent = {}
    BY DEF Absent
  <1> HIDE DEF m
  <1>3. CASE fields = NewRecord
    <2>1. DOMAIN fields = Field /\ fields["status"] = "processing"
      BY <1>3 DEF NewRecord, Field
    <2>2. m["status"] = "processing" /\ DOMAIN m = Field
      BY <1>1, <2>1 DEF Field
    <2>3. m # Absent
      BY <1>2, <2>2 DEF Field
    <2> QED BY <2>1, <2>2, <2>3 DEF Sound, Payload, Whole, Field, TaskStatus, m
  <1>4. CASE fields = Completed
    <2>1. /\ DOMAIN fields = {"status", "result"}
          /\ fields["status"] = "completed"
          /\ fields["result"] = "content"
      BY <1>4 DEF Completed
    <2>2. /\ m["status"] = "completed"
          /\ m["result"] = "content"
          /\ DOMAIN m = DOMAIN h \cup {"status", "result"}
      BY <1>1, <2>1
    <2>3. m # Absent
      BY <1>2, <2>2
    <2>4. Whole(h) => Whole(m)
      BY <2>2 DEF Whole, Field
    <2>5. Sound(m)
      BY <2>2 DEF Sound, Payload, Field, TaskStatus
    <2>6. fields # NewRecord
      BY <2>1 DEF NewRecord, Field
    <2> QED BY <2>1, <2>2, <2>3, <2>4, <2>5, <2>6 DEF m
  <1>5. CASE fields = Failed
    <2>1. /\ DOMAIN fields = {"status", "error"}
          /\ fields["status"] = "failed"
          /\ fields["error"] = "message"
      BY <1>5 DEF Failed
    <2>2. /\ m["status"] = "failed"
          /\ m["error"] = "message"
          /\ DOMAIN m = DOMAIN h \cup {"status", "error"}
      BY <1>1, <2>1
    <2>3. m # Absent
      BY <1>2, <2>2
    <2>4. Whole(h) => Whole(m)
      BY <2>2 DEF Whole, Field
    <2>5. Sound(m)
      BY <2>2 DEF Sound, Payload, Field, TaskStatus
    <2>6. fields # NewRecord
      BY <2>1 DEF NewRecord, Field
    <2> QED BY <2>1, <2>2, <2>3, <2>4, <2>5, <2>6 DEF m
  <1> QED BY <1>3, <1>4, <1>5

\* A server without jobs.
LEMMA InitInv == Init => Inv
  <1> SUFFICES ASSUME Init PROVE Inv
    OBVIOUS
  <1> USE DEF Init
  <1>1. RecordsSound
    BY DEF RecordsSound, Exists
  <1>2. RangesOK
    BY TimesAssumption DEF RangesOK, Never, PC, Answer
  <1>3. Phases
    BY ConstantsAssumption DEF Phases, NotYet, Unfinished, CrawlIsOver, Exists
  <1>4. Drops
    BY DEF Drops, ExpiresFinished, DeletesFinished, Finished, Exists
  <1>5. OneAtATime /\ StaysWhole
    BY DEF OneAtATime, StaysWhole, Exists, InLoop
  <1> QED BY <1>1, <1>2, <1>3, <1>4, <1>5 DEF Inv

\* Steps that only move a job along: nothing is written to Redis.
PcStep(t) ==
    Start(t) \/ CrawlError(t) \/ Notify(t) \/ RedisError(t) \/ Die(t)

\* They keep the invariant.
LEMMA PcStepInv ==
    ASSUME Inv, NEW t \in Task, PcStep(t)
    PROVE  Inv'
  <1> USE DEF Inv
  <1>1. /\ UNCHANGED <<record, ttl, age, polling, answer, shared>>
        /\ pc' = [pc EXCEPT ![t] = pc'[t]]
        /\ pc'[t] \in {"crawling", "failing", "lost", "dead"}
        /\ pc[t] # "none"
        /\ pc'[t] = "crawling" => pc[t] = "queued"
        /\ pc'[t] = "failing" =>
              pc[t] \in InLoop \/ (pc[t] = "crawling" /\ LoopFree)
        /\ crawled' = crawled \/ crawled' = [crawled EXCEPT ![t] = FALSE]
    BY DEF PcStep, Start, CrawlError, Notify, RedisError, Die, RangesOK, InLoop
  <1>2. RecordsSound'
    BY <1>1 DEF RecordsSound, Exists
  <1>3. RangesOK'
    <2>1. pc' \in [Task -> PC]
      BY <1>1 DEF RangesOK, PC
    <2>2. crawled' \in [Task -> BOOLEAN]
      BY <1>1 DEF RangesOK
    <2> QED BY <1>1, <2>1, <2>2 DEF RangesOK
  <1>4. \A s \in Task : pc'[s] = IF s = t THEN pc'[t] ELSE pc[s]
    BY <1>1 DEF RangesOK
  <1>5. Phases'
    <2>1. NotYet'
      BY <1>1, <1>4 DEF Phases, NotYet, Exists
    <2>2. Unfinished'
      BY <1>1, <1>4 DEF Phases, Unfinished, Exists
    <2>3. CrawlIsOver'
      BY <1>1, <1>4 DEF Phases, CrawlIsOver, Finished, Exists
    <2> QED BY <2>1, <2>2, <2>3 DEF Phases
  <1>6. Drops'
    BY <1>1 DEF Drops, ExpiresFinished, DeletesFinished, Finished, Exists
  <1>7. OneAtATime'
    BY <1>1, <1>4 DEF OneAtATime, LoopFree, InLoop
  <1>8. StaysWhole'
    BY <1>1, <1>4 DEF StaysWhole, Exists, InLoop, Phases, Unfinished
  <1> QED BY <1>2, <1>3, <1>5, <1>6, <1>7, <1>8

\* The steps that write the record of a job with HSET.
WriteStep(t) == Submit(t) \/ CrawlOk(t) \/ MarkFailed(t)

\* What they have in common.
LEMMA WriteFacts ==
    ASSUME Inv, NEW t \in Task, WriteStep(t)
    PROVE  /\ record' = [record EXCEPT ![t] = record'[t]]
           /\ \A s \in Task : s # t => record'[s] = record[s]
           /\ record'[t] # Absent
           /\ Sound(record'[t])
           /\ Submit(t) => /\ record'[t]["status"] = "processing"
                           /\ Whole(record'[t])
           /\ ~Submit(t) => record'[t]["status"] \in Terminal
           /\ CrawlOk(t) => record'[t]["status"] = "completed"
           /\ MarkFailed(t) => record'[t]["status"] = "failed"
           /\ Whole(record[t]) => Whole(record'[t])
  <1> USE DEF Inv
  <1>1. DOMAIN record = Task /\ DOMAIN record[t] \subseteq Field
    BY DEF RecordsSound, Sound, Exists, Absent
  <1>2. /\ NewRecord["status"] = "processing"
        /\ Completed["status"] = "completed"
        /\ Failed["status"] = "failed"
    BY DEF NewRecord, Completed, Failed, Field
  <1>3. PICK fields \in {NewRecord, Completed, Failed} :
            /\ HSet(t, fields)
            /\ Submit(t) => fields = NewRecord
            /\ CrawlOk(t) => fields = Completed
            /\ MarkFailed(t) => fields = Failed
    <2>1. CASE Submit(t)
      BY <2>1 DEF Submit, CrawlOk, MarkFailed
    <2>2. CASE CrawlOk(t)
      BY <2>2 DEF Submit, CrawlOk, MarkFailed
    <2>3. CASE MarkFailed(t)
      BY <2>3 DEF Submit, CrawlOk, MarkFailed
    <2> QED BY <2>1, <2>2, <2>3 DEF WriteStep
  <1>4. record' = [record EXCEPT ![t] = Merge(record[t], fields)]
    BY <1>3 DEF HSet
  <1>5. record'[t] = Merge(record[t], fields)
    BY <1>1, <1>4
  <1>6. record' = [record EXCEPT ![t] = record'[t]]
    BY <1>4, <1>5
  <1>7. \A s \in Task : s # t => record'[s] = record[s]
    BY <1>1, <1>4
  <1>8. /\ record'[t] # Absent
        /\ Sound(record'[t])
        /\ record'[t]["status"] = fields["status"]
        /\ Whole(record[t]) \/ fields = NewRecord => Whole(record'[t])
    BY <1>1, <1>5, HSetSound
  <1>9. ~Submit(t) => fields \in {Completed, Failed}
    BY <1>3 DEF WriteStep
  <1> QED BY <1>2, <1>3, <1>6, <1>7, <1>8, <1>9 DEF WriteStep, Terminal

\* They keep the invariant.
LEMMA WriteStepInv ==
    ASSUME Inv, NEW t \in Task, WriteStep(t)
    PROVE  Inv'
  <1> USE DEF Inv
  <1>1. /\ UNCHANGED <<ttl, polling, answer, shared>>
        /\ pc' = [pc EXCEPT ![t] = pc'[t]]
        /\ pc'[t] = IF Submit(t) THEN "queued"
                    ELSE IF CrawlOk(t) THEN "completed" ELSE "done"
        /\ Submit(t) => pc[t] = "none"
        /\ CrawlOk(t) => pc[t] = "crawling" /\ LoopFree
        /\ MarkFailed(t) => pc[t] = "failing"
        /\ age' = age \/ age' = [age EXCEPT ![t] = 0]
        /\ crawled' = crawled \/ crawled' = [crawled EXCEPT ![t] = TRUE]
    BY DEF WriteStep, Submit, CrawlOk, MarkFailed, HSet, RangesOK
  <1>2. /\ \A s \in Task : s # t => record'[s] = record[s]
        /\ record'[t] # Absent
        /\ Sound(record'[t])
        /\ Submit(t) => /\ record'[t]["status"] = "processing"
                        /\ Whole(record'[t])
        /\ ~Submit(t) => record'[t]["status"] \in Terminal
        /\ Whole(record[t]) => Whole(record'[t])
    BY WriteFacts
  <1>3. RecordsSound'
    <2>1. DOMAIN record' = Task
      BY WriteFacts DEF RecordsSound
    <2> QED BY <1>2, <2>1 DEF RecordsSound, Exists
  <1>4. RangesOK'
    <2>1. pc' \in [Task -> PC]
      BY <1>1 DEF RangesOK, PC
    <2>2. age' \in [Task -> 0..(CLEANUP + 1)]
      BY <1>1, TimesAssumption DEF RangesOK
    <2>3. crawled' \in [Task -> BOOLEAN]
      BY <1>1 DEF RangesOK
    <2> QED BY <1>1, <2>1, <2>2, <2>3 DEF RangesOK
  <1>5. \A s \in Task : pc'[s] = IF s = t THEN pc'[t] ELSE pc[s]
    BY <1>1 DEF RangesOK
  <1>6. Submit(t) => /\ ttl[t] = Never
                     /\ \A c \in Client : polling[c] # t
    BY <1>1 DEF Phases, NotYet
  <1>7. Phases'
    <2>1. NotYet'
      BY <1>1, <1>2, <1>5 DEF Phases, NotYet, Exists
    <2>2. Unfinished'
      BY <1>1, <1>2, <1>5 DEF Phases, Unfinished, Exists
    <2>3. CrawlIsOver'
      BY <1>1, <1>2, <1>5 DEF Phases, CrawlIsOver, Finished, Exists
    <2> QED BY <2>1, <2>2, <2>3 DEF Phases
  <1>8. Drops'
    BY <1>1, <1>2, <1>6
       DEF Drops, ExpiresFinished, DeletesFinished, Finished, Exists, Never
  <1>9. OneAtATime'
    BY <1>1, <1>5 DEF OneAtATime, LoopFree, InLoop
  <1>10. StaysWhole'
    BY <1>1, <1>2, <1>5 DEF StaysWhole, Exists, InLoop, Phases, Unfinished,
       WriteStep
  <1> QED BY <1>3, <1>4, <1>7, <1>8, <1>9, <1>10

\* EXPIRE gives a finished record its week.
LEMMA ExpireInv ==
    ASSUME Inv, NEW t \in Task, Expire(t)
    PROVE  Inv'
  <1> USE DEF Inv
  <1>1. /\ UNCHANGED <<record, age, crawled, polling, answer, shared>>
        /\ pc' = [pc EXCEPT ![t] = "expiring"]
        /\ pc[t] = "completed"
        /\ ttl' = ttl \/ ttl' = [ttl EXCEPT ![t] = WEEK]
    BY DEF Expire
  <1>2. \A s \in Task : pc'[s] = IF s = t THEN "expiring" ELSE pc[s]
    BY <1>1 DEF RangesOK
  <1>3. \A s \in Task : s # t => ttl'[s] = ttl[s]
    BY <1>1 DEF RangesOK
  <1>4. RecordsSound'
    BY <1>1 DEF RecordsSound, Exists
  <1>5. RangesOK'
    <2>1. pc' \in [Task -> PC]
      BY <1>1 DEF RangesOK, PC
    <2>2. ttl' \in [Task -> 1..Never]
      BY <1>1, TimesAssumption DEF RangesOK, Never
    <2> QED BY <1>1, <2>1, <2>2 DEF RangesOK
  <1>6. Phases'
    BY <1>1, <1>2, <1>3
       DEF Phases, NotYet, Unfinished, CrawlIsOver, Finished, Exists
  <1>7. Drops'
    BY <1>1, <1>3 DEF Drops, ExpiresFinished, DeletesFinished, Finished,
       Exists, Never, Phases, CrawlIsOver
  <1>8. OneAtATime' /\ StaysWhole'
    BY <1>1, <1>2 DEF OneAtATime, StaysWhole, Exists, InLoop
  <1> QED BY <1>4, <1>5, <1>6, <1>7, <1>8

\* A poll plans to delete finished records only, and in one process no job is
\* between two commands then.
LEMMA PollInv ==
    ASSUME Inv, NEW c \in Client, NEW t \in Task, Poll(c, t)
    PROVE  Inv'
  <1> USE DEF Inv
  <1>1. /\ UNCHANGED <<record, ttl, age, pc, crawled, shared>>
        /\ LoopFree
        /\ pc[t] # "none"
        /\ polling' = [polling EXCEPT ![c] = IF Cleanup(t) THEN t ELSE NoTask]
        /\ answer' = [answer EXCEPT ![t] = Response(record[t])]
    BY DEF Poll
  <1>2. Cleanup(t) => record[t]["status"] \in Terminal
    BY DEF Cleanup, Response, Terminal
  <1>3. Response(record[t]) \in Answer
    BY DEF Response, Answer, RecordsSound, Sound, TaskStatus, Exists
  <1>4. RecordsSound'
    BY <1>1 DEF RecordsSound, Exists
  <1>5. RangesOK'
    <2>1. polling' \in [Client -> Task \cup {NoTask}]
      BY <1>1 DEF RangesOK
    <2>2. answer' \in [Task -> Answer]
      BY <1>1, <1>3 DEF RangesOK
    <2> QED BY <1>1, <2>1, <2>2 DEF RangesOK
  <1>6. \A d \in Client : \A s \in Task :
            polling'[d] = s => polling[d] = s \/ (s = t /\ Cleanup(t))
    BY <1>1, ConstantsAssumption DEF RangesOK
  <1>7. Phases'
    BY <1>1, <1>6 DEF Phases, NotYet, Unfinished, CrawlIsOver, Finished, Exists
  <1>8. Drops'
    BY <1>1, <1>2, <1>6
       DEF Drops, ExpiresFinished, DeletesFinished, Finished, Exists
  <1>9. OneAtATime' /\ StaysWhole'
    BY <1>1 DEF OneAtATime, StaysWhole, Exists, InLoop, LoopFree
  <1> QED BY <1>4, <1>5, <1>7, <1>8, <1>9

\* DEL of a finished record.
LEMMA DeleteInv ==
    ASSUME Inv, NEW c \in Client, Delete(c)
    PROVE  Inv'
  <1> USE DEF Inv
  <1>1. PICK t \in Task : polling[c] = t
    BY DEF Delete, RangesOK
  <1>2. /\ UNCHANGED <<age, pc, crawled, answer, shared>>
        /\ polling' = [polling EXCEPT ![c] = NoTask]
        /\ record' = [record EXCEPT ![t] = Absent]
        /\ ttl' = [ttl EXCEPT ![t] = Never]
        /\ polling[c] # NoTask
    BY <1>1 DEF Delete, Gone
  <1>3. /\ DOMAIN record' = Task
        /\ \A s \in Task : record'[s] = IF s = t THEN Absent ELSE record[s]
        /\ \A s \in Task : ttl'[s] = IF s = t THEN Never ELSE ttl[s]
        /\ \A d \in Client : polling'[d] = IF d = c THEN NoTask ELSE polling[d]
    BY <1>2 DEF RecordsSound, RangesOK
  <1>4. Finished(t)
    BY <1>1 DEF Drops, DeletesFinished
  <1>5. pc[t] \notin {"none", "queued", "crawling"}
    BY <1>1, <1>4 DEF Phases, NotYet, Unfinished, Finished, Terminal
  <1>6. RecordsSound'
    BY <1>3 DEF RecordsSound, Exists
  <1>7. RangesOK'
    <2>1. ttl' \in [Task -> 1..Never]
      BY <1>2, TimesAssumption DEF RangesOK, Never
    <2>2. polling' \in [Client -> Task \cup {NoTask}]
      BY <1>2 DEF RangesOK
    <2> QED BY <1>2, <2>1, <2>2 DEF RangesOK
  <1>8. Phases'
    <2>1. NotYet'
      BY <1>2, <1>3, ConstantsAssumption DEF Phases, NotYet, Exists
    <2>2. Unfinished'
      BY <1>2, <1>3, <1>5 DEF Phases, Unfinished, Exists
    <2>3. CrawlIsOver'
      BY <1>2, <1>3 DEF Phases, CrawlIsOver, Finished, Exists
    <2> QED BY <2>1, <2>2, <2>3 DEF Phases
  <1>9. Drops'
    BY <1>2, <1>3, ConstantsAssumption
       DEF Drops, ExpiresFinished, DeletesFinished, Finished, Exists
  <1>10. OneAtATime'
    BY <1>2, <1>3 DEF OneAtATime
  <1>11. StaysWhole'
    BY <1>2, <1>3 DEF StaysWhole, Exists, OneAtATime
  <1> QED BY <1>6, <1>7, <1>8, <1>9, <1>10, <1>11

\* Time passes: the records that expire are finished ones, and in one process
\* none of them belongs to a job between two commands.
LEMMA TickInv ==
    ASSUME Inv, Tick
    PROVE  Inv'
  <1> USE DEF Inv
  <1>1. /\ UNCHANGED <<pc, crawled, polling, answer, shared>>
        /\ LoopFree
        /\ DOMAIN record' = Task
        /\ \A t \in Task : record'[t] = IF ttl[t] = 1 THEN Absent ELSE record[t]
        /\ \A t \in Task : ttl'[t] = IF ttl[t] \in {Never, 1} THEN Never
                                     ELSE ttl[t] - 1
    BY DEF Tick
  <1>2. Never > 1 /\ Never \in Nat
    BY TimesAssumption DEF Never
  <1>3. \A t \in Task : ttl[t] = 1 =>
            /\ Finished(t)
            /\ pc[t] \notin {"none", "queued", "crawling"}
    BY <1>2 DEF Drops, ExpiresFinished, Phases, NotYet, Unfinished, Finished,
       Terminal
  <1>4. RecordsSound'
    BY <1>1 DEF RecordsSound, Exists
  <1>5. RangesOK'
    <2>1. ttl' \in [Task -> 1..Never]
      <3>1. DOMAIN ttl' = Task /\ ttl' = [t \in Task |-> ttl'[t]]
        BY DEF Tick
      <3>2. \A t \in Task : ttl'[t] \in 1..Never
        BY <1>1, <1>2 DEF RangesOK
      <3> QED BY <3>1, <3>2
    <2>2. age' \in [Task -> 0..(CLEANUP + 1)]
      BY TimesAssumption DEF Tick, RangesOK, Older
    <2> QED BY <1>1, <2>1, <2>2 DEF RangesOK
  <1>6. Phases'
    <2>1. NotYet'
      BY <1>1, <1>3 DEF Phases, NotYet, Exists
    <2>2. Unfinished'
      BY <1>1, <1>3 DEF Phases, Unfinished, Exists
    <2>3. CrawlIsOver'
      BY <1>1 DEF Phases, CrawlIsOver, Finished, Exists
    <2> QED BY <2>1, <2>2, <2>3 DEF Phases
  <1>7. Drops'
    BY <1>1 DEF Drops, ExpiresFinished, DeletesFinished, Finished, Exists,
       Never
  <1>8. OneAtATime'
    BY <1>1 DEF OneAtATime
  <1>9. StaysWhole'
    BY <1>1 DEF StaysWhole, Exists, LoopFree
  <1> QED BY <1>4, <1>5, <1>6, <1>7, <1>8, <1>9

\* Nothing happens.
LEMMA StutterInv == ASSUME Inv, UNCHANGED vars PROVE Inv'
  BY DEF Inv, vars, RecordsSound, RangesOK, Phases, NotYet, Unfinished,
     CrawlIsOver, Drops, ExpiresFinished, DeletesFinished, Finished,
     OneAtATime, StaysWhole, Exists, InLoop

\* Every step, by the kind of step it is.
LEMMA Steps ==
    ASSUME [Next]_vars
    PROVE  \/ \E t \in Task : PcStep(t) \/ WriteStep(t) \/ Expire(t)
           \/ \E c \in Client : (\E t \in Task : Poll(c, t)) \/ Delete(c)
           \/ Tick
           \/ UNCHANGED vars
  BY DEF Next, Runner, PcStep, WriteStep

\* The invariant is kept by every step.
LEMMA NextInv == Inv /\ [Next]_vars => Inv'
  <1> SUFFICES ASSUME Inv, [Next]_vars PROVE Inv'
    OBVIOUS
  <1>1. CASE \E t \in Task : PcStep(t) \/ WriteStep(t) \/ Expire(t)
    BY <1>1, PcStepInv, WriteStepInv, ExpireInv
  <1>2. CASE \E c \in Client : (\E t \in Task : Poll(c, t)) \/ Delete(c)
    BY <1>2, PollInv, DeleteInv
  <1>3. CASE Tick \/ UNCHANGED vars
    BY <1>3, TickInv, StutterInv
  <1> QED BY <1>1, <1>2, <1>3, Steps

\* The job records of handle_crawl_job, _runner and handle_task_status obey
\* the invariant.
THEOREM JobInvariant == Spec => []Inv
  BY InitInv, NextInv, PTL DEF Spec

\* Every field, status, time and phase is one that the service knows.
THEOREM TypeCorrect == Spec => []TypeOK
  <1>1. Inv => TypeOK
    BY DEF Inv, TypeOK, RangesOK, RecordsSound, Sound, Exists, Absent
  <1> QED BY <1>1, JobInvariant, PTL

\* create_task_response always finds the payload of the status it read.
THEOREM PayloadIsThere == Spec => []StatusHasItsPayload
  <1>1. Inv => StatusHasItsPayload
    BY DEF Inv, StatusHasItsPayload, RecordsSound, Sound, Payload
  <1> QED BY <1>1, JobInvariant, PTL

\* In one process, _runner never revives a record that a poll deleted.
THEOREM OneProcessIsWhole == Spec => []RecordIsWhole
  <1>1. Inv => RecordIsWhole
    BY DEF Inv, RecordIsWhole, StaysWhole
  <1> QED BY <1>1, JobInvariant, PTL

\* No interleaving of jobs, polls, expiry and crashes takes a status back or
\* drops the record of an unfinished job.
THEOREM NeverGoesBack == Spec => StatusOnlyAdvances
  <1> DEFINE Advances(t) ==
          Exists(t) =>
              /\ Rank(record[t]) <= Rank(record'[t])
              /\ Rank(record[t]) = 0 => record'[t] # Absent
  <1>1. ASSUME Inv, [Next]_vars, NEW t \in Task
        PROVE  Advances(t)
    <2> USE <1>1 DEF Inv
    <2> SUFFICES ASSUME Exists(t) PROVE Advances(t)
      OBVIOUS
    <2>1. /\ record[t] # Absent
          /\ record[t]["status"] \in TaskStatus
      BY DEF RecordsSound, Sound, Exists
    <2>2. /\ Rank(record[t]) \in {0, 1, 2}
          /\ Rank(record[t]) = 0 <=> record[t]["status"] = "processing"
          /\ Rank(record[t]) = 2 <=> record[t]["status"] = "failed"
      BY <2>1 DEF Rank, TaskStatus
    <2>3. Rank(Absent) = 3
      BY DEF Rank
    <2>4. CASE record'[t] = record[t]
      BY <2>1, <2>2, <2>4
    <2>5. CASE record'[t] = Absent /\ Finished(t)
      BY <2>2, <2>3, <2>5 DEF Finished, Terminal
    <2>6. CASE WriteStep(t)
      <3>1. record'[t] # Absent
        BY <2>6, WriteFacts
      <3>2. ~Submit(t)
        BY DEF Submit, Phases, NotYet
      <3>3. CASE MarkFailed(t)
        <4>1. Rank(record'[t]) = 2
          BY <2>6, <3>1, <3>3, WriteFacts DEF Rank
        <4> QED BY <2>2, <3>1, <4>1
      <3>4. CASE CrawlOk(t)
        <4>1. Rank(record'[t]) = 1
          BY <2>6, <3>1, <3>4, WriteFacts DEF Rank
        <4>2. Rank(record[t]) = 0
          BY <2>2, <3>4 DEF CrawlOk, Phases, Unfinished
        <4> QED BY <3>1, <4>1, <4>2
      <3> QED BY <2>6, <3>2, <3>3, <3>4 DEF WriteStep
    <2>7. ASSUME NEW s \in Task, PcStep(s) \/ Expire(s)
          PROVE  record'[t] = record[t]
      BY <2>7 DEF PcStep, Start, CrawlError, Notify, RedisError, Die, Expire
    <2>8. ASSUME NEW s \in Task, s # t, WriteStep(s)
          PROVE  record'[t] = record[t]
      BY <2>8, WriteFacts
    <2>9. ASSUME NEW c \in Client, NEW s \in Task, Poll(c, s)
          PROVE  record'[t] = record[t]
      BY <2>9 DEF Poll
    <2>10. ASSUME NEW c \in Client, Delete(c)
           PROVE  \/ record'[t] = record[t]
                  \/ record'[t] = Absent /\ Finished(t)
      BY <2>10 DEF Delete, Gone, RecordsSound, Drops, DeletesFinished
    <2>11. ASSUME Tick
           PROVE  \/ record'[t] = record[t]
                  \/ record'[t] = Absent /\ Finished(t)
      <3>1. ttl[t] = 1 => Finished(t)
        BY TimesAssumption DEF Never, Drops, ExpiresFinished
      <3> QED BY <2>11, <3>1 DEF Tick
    <2>12. UNCHANGED vars => record'[t] = record[t]
      BY DEF vars
    <2> QED BY <2>4, <2>5, <2>6, <2>7, <2>8, <2>9, <2>10, <2>11, <2>12, Steps
  <1>2. ASSUME Inv, [Next]_vars
        PROVE  [\A t \in Task : Advances(t)]_vars
    BY <1>1, <1>2
  <1> QED BY <1>2, JobInvariant, PTL DEF Spec, StatusOnlyAdvances
=============================================================================
