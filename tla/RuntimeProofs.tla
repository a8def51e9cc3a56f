---------------------------- MODULE RuntimeProofs ----------------------------
(***************************************************************************)
(* Theorems about the virtio-blk driver and the scheduler, which know      *)
(* nothing of each other: a section each.                                  *)
(***************************************************************************)
EXTENDS VirtioBlk, Scheduler, TLAPS

\* A leaf that names no prover is for SMT, with time to spare on a busy machine.
USE SMTT(60)

-----------------------------------------------------------------------------
(***************************************************************************)
(* OkMeansDone and WritesGoHome for every number of sectors, values, ring  *)
(* indices and polls.                                                      *)
(*                                                                         *)
(* Neither is inductive.  They rest on the page: from the store of the     *)
(* header to the end of the call it describes the call (PageOfCall), and   *)
(* as long as no call has been given up the device is at rest, with all    *)
(* indices equal, except while the driver polls, and then works on that    *)
(* very request (InStep).                                                  *)
(***************************************************************************)

Busy == {"header", "status", "desc", "publish", "poll", "check", "copy"}

\* A call names a sector, and bytes that its caller asked to store.
CallOK ==
    driver_at \in Busy =>
        /\ call.type \in {"read", "write"}
        /\ call.sector \in Sectors
        /\ call.type = "write" => call.value \in asked[call.sector]

\* There is nothing to take until a header has been stored.
HeaderOK ==
    /\ header.type \in {"none", "read", "write"}
    /\ header.type = "none" => avail = taken
    /\ header.type # "none" => header.sector \in Sectors

DeviceOK ==
    /\ device.at = "rest" => device = Resting
    /\ device.at = "fetched" =>
          /\ device.type \in {"read", "write"}
          /\ device.sector \in Sectors
          /\ device.fits \in BOOLEAN
    /\ device.at = "moved" => device.answer \in {0, 1}

\* The page describes the call once the driver has written it.
PageOfCall ==
    /\ driver_at \in Busy \ {"header"} => header.type = call.type /\ header.sector = call.sector
    /\ driver_at \in {"publish", "poll", "check", "copy"} => (flags = TRUE <=> call.type = "read")

\* The device works on the request of the call that polls, and on no other.
InStep ==
    /\ driver_at # "poll" =>
          avail = last_used /\ used = last_used /\ taken = last_used /\ device.at = "rest"
    /\ driver_at = "poll" =>
          /\ avail = Increment(last_used)
          /\ \/ taken = last_used /\ used = last_used /\ device.at = "rest"
             \/ taken = avail /\ used = last_used /\ device.at # "rest"
             \/ taken = avail /\ used = avail /\ device.at = "rest"
    /\ device.at = "fetched" =>
          device.type = call.type /\ device.sector = call.sector /\ device.fits = TRUE

\* The sector holds what the call asked to store, or the page what it holds.
Done == disk[call.sector] = IF call.type = "write" THEN call.value ELSE dma_data

\* What the device has answered it has done.
AnswerTrue ==
    /\ driver_at \in Busy /\ call.type = "write" => dma_data = call.value
    /\ device.at = "moved" /\ device.answer = 0 => Done
    /\ device.at = "answered" /\ status = 0 => Done
    /\ driver_at = "poll" /\ used = avail /\ status = 0 => Done
    /\ driver_at = "check" /\ status = 0 => Done
    /\ driver_at = "copy" => call.type = "read" /\ Done

Stored == \A s \in Sectors : disk[s] \in asked[s]

BlkInv ==
    /\ BlkTypeOK /\ CallOK /\ HeaderOK /\ DeviceOK /\ PageOfCall
    /\ driver_at = "probe" => result.outcome = "none"
    /\ ~gave_up => InStep /\ AnswerTrue /\ Stored /\ OkMeansDone

\* The strengthened invariant of the driver and the device.
THEOREM BlkInvHolds == BlkSpec => []BlkInv

\* There are at least two indices, so a new request moves the avail index.
<0>IncrementFacts.
      ASSUME NEW i \in Index
      PROVE  Increment(i) \in Index /\ Increment(i) # i
  <1> USE <0>IncrementFacts
  <1> QED BY VirtioAssumption, SMT DEF Index, Increment

\* The invariant holds at the start.
<0>BlkInitInv.
      BlkInit => BlkInv
  <1> SUFFICES ASSUME BlkInit PROVE BlkInv
    OBVIOUS
  <1>1. Initial \in Values
    BY VirtioAssumption DEF Initial
  <1>2. 0 \in Index /\ 0 \in 0 .. MaxPolls
    BY VirtioAssumption DEF Index
  <1>3. BlkTypeOK
    BY <1>1, <1>2, ZenonT(60) DEF BlkInit, BlkTypeOK, Resting
  <1>4. CallOK /\ HeaderOK /\ DeviceOK /\ PageOfCall
    BY DEF BlkInit, CallOK, HeaderOK, DeviceOK, PageOfCall, Busy, Resting
  <1>5. InStep /\ AnswerTrue /\ Stored /\ OkMeansDone
    BY DEF BlkInit, InStep, AnswerTrue, Stored, OkMeansDone, Busy, Resting
  <1> QED
    BY <1>3, <1>4, <1>5 DEF BlkInv, BlkInit

\* Every step of the driver and of the device keeps the invariant.
<0>BlkNextInv.
      BlkInv /\ [BlkNext]_blkVars => BlkInv'
  <1> SUFFICES ASSUME BlkInv, [BlkNext]_blkVars PROVE BlkInv'
    OBVIOUS
  <1> USE DEF Busy, driver, page
  <1>1. CASE probe
    <2>1. BlkTypeOK'
      BY <1>1, ZenonT(60) DEF probe, BlkInv, BlkTypeOK, DeviceOK
    <2>2. CallOK' /\ HeaderOK' /\ DeviceOK' /\ PageOfCall' /\ (driver_at' = "probe" => result'.outcome = "none")
      BY <1>1, ZenonT(60) DEF probe, BlkInv, BlkTypeOK, CallOK, HeaderOK, DeviceOK, PageOfCall
    <2>3. ~gave_up' => ~gave_up /\ InStep'
      BY <1>1, ZenonT(60) DEF probe, BlkInv, BlkTypeOK, DeviceOK, InStep
    <2>4. ~gave_up' => AnswerTrue'
      BY <1>1, <2>3, ZenonT(60) DEF probe, BlkInv, BlkTypeOK, CallOK, DeviceOK, InStep, AnswerTrue, Done
    <2>5. ~gave_up' => Stored'
      BY <1>1, <2>3, ZenonT(60) DEF probe, BlkInv, BlkTypeOK, CallOK, DeviceOK, InStep, AnswerTrue, Stored
    <2>6. ~gave_up' => OkMeansDone'
      BY <1>1, <2>3 DEF probe, BlkInv, BlkTypeOK, CallOK, InStep, AnswerTrue, Done, OkMeansDone
    <2> QED
      BY <2>1, <2>2, <2>3, <2>4, <2>5, <2>6 DEF BlkInv
  <1>2. ASSUME NEW s \in Sectors, read_sector(s) PROVE BlkInv'
    BY <1>2
       DEF read_sector, BlkInv, BlkTypeOK, CallOK, HeaderOK, DeviceOK, PageOfCall, InStep, AnswerTrue,
       Stored, OkMeansDone, Done
  <1>3. ASSUME NEW s \in Sectors, NEW v \in Values, write_sector(s, v) PROVE BlkInv'
    BY <1>3
       DEF write_sector, BlkInv, BlkTypeOK, CallOK, HeaderOK, DeviceOK, PageOfCall, InStep, AnswerTrue,
       Stored, OkMeansDone, Done
  <1>4. CASE WriteHeader
    BY <1>4
       DEF WriteHeader, BlkInv, BlkTypeOK, CallOK, HeaderOK, DeviceOK, PageOfCall, InStep, AnswerTrue,
       Stored, OkMeansDone, Done
  <1>5. CASE WriteStatus
    BY <1>5
       DEF WriteStatus, BlkInv, BlkTypeOK, CallOK, HeaderOK, DeviceOK, PageOfCall, InStep, AnswerTrue,
       Stored, OkMeansDone, Done
  <1>6. CASE write_desc
    BY <1>6, ZenonT(60)
       DEF write_desc, BlkInv, BlkTypeOK, CallOK, HeaderOK, DeviceOK, PageOfCall, InStep, AnswerTrue,
       Stored, OkMeansDone, Done
  <1>7. CASE Publish
    BY <1>7, <0>IncrementFacts, VirtioAssumption
       DEF Publish, BlkInv, BlkTypeOK, CallOK, HeaderOK, DeviceOK, PageOfCall, InStep, AnswerTrue,
       Stored, OkMeansDone, Done
  <1>8. CASE Poll
    <2>1. BlkTypeOK'
      <3>1. polls' \in 0 .. MaxPolls
        BY <1>8, VirtioAssumption DEF Poll, BlkInv, BlkTypeOK
      <3>2. gave_up' \in BOOLEAN /\ flags' \in BOOLEAN
        BY <1>8, ZenonT(60) DEF Poll, BlkInv, BlkTypeOK
      <3>3. driver_at' \in {"poll", "check", "idle"} /\ last_used' \in {last_used, used}
        BY <1>8 DEF Poll, Return
      <3>4. UNCHANGED <<dma_data, status, avail, used, taken, device, disk, asked>>
        BY <1>8 DEF Poll
      <3>5. last_used \in Index /\ used \in Index
        BY ZenonT(60) DEF BlkInv, BlkTypeOK
      <3>6. last_used' \in Index
        BY <3>3, <3>5
      <3> QED
        BY <3>1, <3>2, <3>3, <3>4, <3>6, ZenonT(60) DEF BlkInv, BlkTypeOK
    <2>2. CallOK' /\ HeaderOK' /\ DeviceOK' /\ PageOfCall' /\ (driver_at' = "probe" => result'.outcome = "none")
      BY <1>8, <0>IncrementFacts DEF Poll, Return, BlkInv, BlkTypeOK, CallOK, HeaderOK, DeviceOK, PageOfCall
    <2>3. ~gave_up' => ~gave_up /\ InStep'
      BY <1>8, <0>IncrementFacts DEF Poll, Return, BlkInv, BlkTypeOK, DeviceOK, InStep
    <2>4. ~gave_up' => AnswerTrue'
      BY <1>8, <0>IncrementFacts, <2>3 DEF Poll, Return, BlkInv, BlkTypeOK, CallOK, DeviceOK, InStep, AnswerTrue, Done
    <2>5. ~gave_up' => Stored'
      BY <1>8, <0>IncrementFacts, <2>3 DEF Poll, Return, BlkInv, BlkTypeOK, CallOK, DeviceOK, InStep, AnswerTrue, Stored
    <2>6. ~gave_up' => OkMeansDone'
      BY <1>8, <0>IncrementFacts, <2>3 DEF Poll, Return, BlkInv, BlkTypeOK, CallOK, InStep, AnswerTrue, Done, OkMeansDone
    <2> QED
      BY <2>1, <2>2, <2>3, <2>4, <2>5, <2>6 DEF BlkInv
  <1>9. CASE CheckStatus
    <2>1. BlkTypeOK'
      BY <1>9, ZenonT(60) DEF CheckStatus, Return, BlkInv, BlkTypeOK, DeviceOK
    <2>2. CallOK' /\ HeaderOK' /\ DeviceOK' /\ PageOfCall' /\ (driver_at' = "probe" => result'.outcome = "none")
      BY <1>9 DEF CheckStatus, Return, BlkInv, BlkTypeOK, CallOK, HeaderOK, DeviceOK, PageOfCall
    <2>3. ~gave_up' => ~gave_up /\ InStep'
      BY <1>9 DEF CheckStatus, Return, BlkInv, BlkTypeOK, DeviceOK, InStep
    <2>4. ~gave_up' => AnswerTrue'
      BY <1>9, <2>3 DEF CheckStatus, Return, BlkInv, BlkTypeOK, CallOK, DeviceOK, InStep, AnswerTrue, Done
    <2>5. ~gave_up' => Stored'
      BY <1>9, <2>3 DEF CheckStatus, Return, BlkInv, BlkTypeOK, CallOK, DeviceOK, InStep, AnswerTrue, Stored
    <2>6. ~gave_up' => OkMeansDone'
      BY <1>9, <2>3 DEF CheckStatus, Return, BlkInv, BlkTypeOK, CallOK, InStep, AnswerTrue, Done, OkMeansDone
    <2> QED
      BY <2>1, <2>2, <2>3, <2>4, <2>5, <2>6 DEF BlkInv
  <1>10. CASE CopyOut
    BY <1>10
       DEF CopyOut, BlkInv, BlkTypeOK, CallOK, HeaderOK, DeviceOK, PageOfCall, InStep, AnswerTrue,
       Stored, OkMeansDone, Done
  <1>11. CASE Fetch
    <2>0. /\ device.at = "rest" /\ taken # avail /\ taken' = Increment(taken)
          /\ device'.at = "fetched" /\ device'.type = header.type /\ device'.sector = header.sector
          /\ UNCHANGED <<driver, page, avail, used, disk, asked, gave_up>>
      BY <1>11 DEF Fetch, Resting
    <2>00. /\ device'.fits \in BOOLEAN
           /\ (flags = TRUE <=> header.type = "read") => device'.fits = TRUE
      <3>1. device'.fits = (flags = (header.type = "read"))
        BY <1>11 DEF Fetch
      <3>2. flags \in BOOLEAN
        BY ZenonT(60) DEF BlkInv, BlkTypeOK
      <3> QED BY <3>1, <3>2, ZenonT(60)
    <2>1. BlkTypeOK'
      BY <2>0, <2>00, <0>IncrementFacts, ZenonT(60) DEF BlkInv, BlkTypeOK, DeviceOK
    <2>2. CallOK' /\ HeaderOK' /\ DeviceOK' /\ PageOfCall' /\ (driver_at' = "probe" => result'.outcome = "none")
      <3>1. header.type # "none"
        BY <2>0 DEF BlkInv, HeaderOK
      <3>2. DeviceOK'
        BY <2>0, <2>00, <3>1 DEF BlkInv, HeaderOK, DeviceOK
      <3>3. CallOK' /\ HeaderOK'
        BY <2>0, <3>1 DEF BlkInv, CallOK, HeaderOK
      <3>4. PageOfCall' /\ (driver_at' = "probe" => result'.outcome = "none")
        BY <2>0 DEF BlkInv, PageOfCall
      <3> QED BY <3>2, <3>3, <3>4
    <2>3. ~gave_up' => ~gave_up /\ InStep'
      BY <2>0, <2>00, <0>IncrementFacts, ZenonT(60) DEF BlkInv, BlkTypeOK, HeaderOK, DeviceOK, InStep, PageOfCall
    <2>4. ~gave_up' => AnswerTrue'
      BY <2>0, <2>00, <0>IncrementFacts, <2>3, ZenonT(60) DEF BlkInv, BlkTypeOK, CallOK, DeviceOK, InStep, PageOfCall, AnswerTrue, Done
    <2>5. ~gave_up' => Stored'
      BY <2>0, <2>00, <0>IncrementFacts, <2>3, ZenonT(60) DEF BlkInv, BlkTypeOK, CallOK, DeviceOK, InStep, PageOfCall, AnswerTrue, Stored
    <2>6. ~gave_up' => OkMeansDone'
      BY <2>0, <2>00, <0>IncrementFacts, <2>3 DEF BlkInv, BlkTypeOK, CallOK, InStep, AnswerTrue, Done, OkMeansDone
    <2> QED
      BY <2>1, <2>2, <2>3, <2>4, <2>5, <2>6 DEF BlkInv
  <1>12. CASE Transfer
    <2>0. /\ device.at = "fetched" /\ device'.at = "moved" /\ device'.answer \in {0, 1}
          /\ UNCHANGED <<driver, header, status, flags, avail, used, taken, asked, gave_up>>
          /\ \/ device.type = "read" /\ dma_data' = disk[device.sector] /\ disk' = disk
             \/ device.type = "write" /\ disk' = [disk EXCEPT ![device.sector] = dma_data] /\ dma_data' = dma_data
             \/ device'.answer = 1 /\ dma_data' = dma_data /\ disk' = disk
      <3>1. CASE device.fits /\ device.type = "read" /\ dma_data' = disk[device.sector]
                 /\ device' = [at |-> "moved", answer |-> 0] /\ UNCHANGED disk
        BY <1>12, <3>1 DEF Transfer
      <3>2. CASE device.fits /\ device.type = "write"
                 /\ disk' = [disk EXCEPT ![device.sector] = dma_data]
                 /\ device' = [at |-> "moved", answer |-> 0] /\ UNCHANGED dma_data
        BY <1>12, <3>2 DEF Transfer
      <3>3. CASE device' = [at |-> "moved", answer |-> 1] /\ UNCHANGED <<dma_data, disk>>
        BY <1>12, <3>3 DEF Transfer
      <3> QED BY <1>12, <3>1, <3>2, <3>3, ZenonT(60) DEF Transfer
    <2>1. BlkTypeOK'
      <3>0. dma_data \in Values /\ disk \in [Sectors -> Values] /\ device.sector \in Sectors
        BY <2>0, ZenonT(60) DEF BlkInv, BlkTypeOK, DeviceOK
      <3>1. dma_data' \in Values /\ disk' \in [Sectors -> Values]
        BY <2>0, <3>0
      <3> QED
        BY <2>0, <3>1, ZenonT(60) DEF BlkInv, BlkTypeOK
    <2>2. CallOK' /\ HeaderOK' /\ DeviceOK' /\ PageOfCall' /\ (driver_at' = "probe" => result'.outcome = "none")
      BY <2>0, ZenonT(60) DEF BlkInv, BlkTypeOK, CallOK, HeaderOK, DeviceOK, PageOfCall
    <2>3. ~gave_up' => ~gave_up /\ InStep'
      BY <2>0, ZenonT(60) DEF BlkInv, BlkTypeOK, DeviceOK, InStep
    <2>4. ~gave_up' => AnswerTrue'
      <3> SUFFICES ASSUME ~gave_up' PROVE AnswerTrue'
        OBVIOUS
      <3>1. /\ driver_at = "poll" /\ used # avail
            /\ device.type = call.type /\ device.sector = call.sector
            /\ call.type \in {"read", "write"} /\ call.sector \in Sectors
            /\ call.type = "write" => dma_data = call.value
        <4>1. ~gave_up /\ InStep /\ AnswerTrue /\ CallOK /\ last_used \in Index
          BY <2>3, ZenonT(60) DEF BlkInv, BlkTypeOK
        <4>2. driver_at = "poll" /\ used = last_used /\ avail = Increment(last_used)
          BY <2>0, <4>1 DEF InStep
        <4> QED
          BY <2>0, <4>1, <4>2, <0>IncrementFacts DEF CallOK, InStep, AnswerTrue
      <3>2. call.type = "write" => dma_data' = call.value
        BY <2>0, <3>1
      <3>3. device'.answer = 0 => Done'
        BY <2>0, <3>1 DEF BlkInv, BlkTypeOK, Done
      <3> QED
        BY <2>0, <3>1, <3>2, <3>3 DEF AnswerTrue
    <2>5. ~gave_up' => Stored'
      BY <2>0, <2>3, ZenonT(60) DEF BlkInv, BlkTypeOK, CallOK, DeviceOK, InStep, AnswerTrue, Stored
    <2>6. ~gave_up' => OkMeansDone'
      BY <2>0, <2>3 DEF BlkInv, BlkTypeOK, CallOK, InStep, AnswerTrue, Done, OkMeansDone
    <2> QED
      BY <2>1, <2>2, <2>3, <2>4, <2>5, <2>6 DEF BlkInv
  <1>13. CASE Answer
    BY <1>13, ZenonT(60)
       DEF Answer, BlkInv, BlkTypeOK, CallOK, HeaderOK, DeviceOK, PageOfCall, InStep, AnswerTrue,
       Stored, OkMeansDone, Done
  <1>14. CASE Complete
    <2>1. BlkTypeOK'
      BY <1>14, <0>IncrementFacts, ZenonT(60) DEF Complete, Resting, BlkInv, BlkTypeOK, DeviceOK
    <2>2. CallOK' /\ HeaderOK' /\ DeviceOK' /\ PageOfCall' /\ (driver_at' = "probe" => result'.outcome = "none")
      BY <1>14, <0>IncrementFacts, ZenonT(60) DEF Complete, Resting, BlkInv, BlkTypeOK, CallOK, HeaderOK, DeviceOK, PageOfCall
    <2>3. ~gave_up' => ~gave_up /\ InStep'
      BY <1>14, <0>IncrementFacts, ZenonT(60) DEF Complete, Resting, BlkInv, BlkTypeOK, DeviceOK, InStep
    <2>4. ~gave_up' => AnswerTrue'
      BY <1>14, <0>IncrementFacts, <2>3, ZenonT(60) DEF Complete, Resting, BlkInv, BlkTypeOK, CallOK, DeviceOK, InStep, AnswerTrue, Done
    <2>5. ~gave_up' => Stored'
      BY <1>14, <0>IncrementFacts, <2>3, ZenonT(60) DEF Complete, Resting, BlkInv, BlkTypeOK, CallOK, DeviceOK, InStep, AnswerTrue, Stored
    <2>6. ~gave_up' => OkMeansDone'
      BY <1>14, <0>IncrementFacts, <2>3 DEF Complete, Resting, BlkInv, BlkTypeOK, CallOK, InStep, AnswerTrue, Done, OkMeansDone
    <2> QED
      BY <2>1, <2>2, <2>3, <2>4, <2>5, <2>6 DEF BlkInv
  <1>15. CASE UNCHANGED blkVars
    <2>1. BlkTypeOK'
      BY <1>15, ZenonT(60) DEF blkVars, BlkInv, BlkTypeOK, DeviceOK
    <2>2. CallOK' /\ HeaderOK' /\ DeviceOK' /\ PageOfCall' /\ (driver_at' = "probe" => result'.outcome = "none")
      BY <1>15, ZenonT(60) DEF blkVars, BlkInv, BlkTypeOK, CallOK, HeaderOK, DeviceOK, PageOfCall
    <2>3. ~gave_up' => ~gave_up /\ InStep'
      BY <1>15, ZenonT(60) DEF blkVars, BlkInv, BlkTypeOK, DeviceOK, InStep
    <2>4. ~gave_up' => AnswerTrue'
      BY <1>15, <2>3, ZenonT(60) DEF blkVars, BlkInv, BlkTypeOK, CallOK, DeviceOK, InStep, AnswerTrue, Done
    <2>5. ~gave_up' => Stored'
      BY <1>15, <2>3, ZenonT(60) DEF blkVars, BlkInv, BlkTypeOK, CallOK, DeviceOK, InStep, AnswerTrue, Stored
    <2>6. ~gave_up' => OkMeansDone'
      BY <1>15, <2>3 DEF blkVars, BlkInv, BlkTypeOK, CallOK, InStep, AnswerTrue, Done, OkMeansDone
    <2> QED
      BY <2>1, <2>2, <2>3, <2>4, <2>5, <2>6 DEF BlkInv
  <1> QED
    BY <1>1, <1>2, <1>3, <1>4, <1>5, <1>6, <1>7, <1>8, <1>9, <1>10, <1>11, <1>12, <1>13, <1>14, <1>15
       DEF BlkNext, Submit
<0> QED BY <0>BlkInitInv, <0>BlkNextInv, PTL DEF BlkSpec

\* Ok means done, for every disk, ring size and number of polls: as long as no
\* request was given up on, write_sector has stored the caller's bytes when it
\* returns Ok, and read_sector returns what the sector holds.
THEOREM OkMeansDoneHolds == BlkSpec => []OkMeansDone
<1>1. BlkInv => OkMeansDone
  BY DEF BlkInv, OkMeansDone
<1> QED
  BY <1>1, BlkInvHolds, PTL

\* The variables keep their types, and as long as no request was given up on
\* a sector holds only what a caller of write_sector asked to store in it.
THEOREM WritesGoHomeHolds == BlkSpec => []WritesGoHome
<1>1. BlkInv => WritesGoHome
  BY DEF BlkInv, WritesGoHome, Stored
<1> QED
  BY <1>1, BlkInvHolds, PTL

-----------------------------------------------------------------------------
(***************************************************************************)
(* Proofs about the scheduler, for every number of tasks, every sleep      *)
(* bound, every quantum and every assignment of roles to tasks.            *)
(*                                                                         *)
(* OneRunning and its companions are not inductive alone: that a switch    *)
(* finds a frame to resume from depends on what the table says of the task *)
(* the CPU is leaving, and that a sleep is not cut short depends on Ready  *)
(* tasks having no ticks left.  Inv adds those facts.                      *)
(***************************************************************************)

\* A slot is unused exactly when it has not been pushed; the table is empty or
\* holds at least the boot task and the worker.
TableShape ==
    /\ \A t \in Slots : state[t] = "Unused" <=> t >= len
    /\ len = 0 \/ len >= 2

\* The indices the scheduler keeps are indices into the table.
IndicesValid ==
    IF initialized THEN current < len /\ cpu < len
    ELSE current = Boot /\ cpu = Boot /\ pc \in {"body", "wait", "waitHlt"}

\* What the table says of the task the CPU is leaving.
LeavingState ==
    /\ pc = "switch" => state[cpu] \in {"Ready", "Sleeping"}
    /\ pc = "exitSwitch" => state[cpu] = "Exited"

\* Ready tasks and the running task have slept long enough, and a slot that
\* was never used owes nothing.
DueWhenReady ==
    /\ \A t \in Slots : state[t] = "Ready" => left[t] = 0
    /\ \A t \in Slots \ {current} : state[t] = "Unused" => left[t] = 0
    /\ pc \notin {"sleep", "wait", "waitHlt"} => left[current] = 0

Inv ==
    /\ TypeOK
    /\ TableShape
    /\ IndicesValid
    /\ OneRunning
    /\ ExecutingIsCurrent
    /\ LeavingState
    /\ ContextsResumable
    /\ DueWhenReady

-----------------------------------------------------------------------------

\* The strengthened invariant holds in every reachable state.
THEOREM InvHolds == Spec => []Inv

\* The initial state of task::init satisfies the invariant.
<0>InitInv.
      Init => Inv
  <1> SUFFICES ASSUME Init PROVE Inv
    OBVIOUS
  <1>1. Boot \in Slots /\ len = 0 /\ ~initialized /\ Tasks = {}
    BY BoundsAssumption DEF Init, Slots, Boot, initialized, Tasks
  <1>2. TypeOK
    <2>1. /\ len \in 0 .. MaxTasks /\ left \in [Slots -> 0 .. MaxSleep]
          /\ state \in [Slots -> States] /\ ctx \in [Slots -> Frames]
      BY BoundsAssumption DEF Init, States, Frames
    <2>2. /\ current \in Slots /\ cpu \in Slots /\ pc \in Points
          /\ intr \in BOOLEAN /\ resched \in BOOLEAN /\ phase \in 0 .. Quantum - 1
      BY <1>1, ZenonT(60) DEF Init, Points
    <2> QED
      BY <2>1, <2>2 DEF TypeOK
  <1>3. TableShape /\ DueWhenReady
    BY <1>1 DEF Init, TableShape, DueWhenReady, Slots
  <1>4. IndicesValid /\ OneRunning /\ ExecutingIsCurrent /\ LeavingState
    BY <1>1 DEF Init, IndicesValid, OneRunning, ExecutingIsCurrent, LeavingState
  <1>5. ContextsResumable
    BY <1>1 DEF Init, ContextsResumable
  <1> QED
    BY <1>2, <1>3, <1>4, <1>5 DEF Inv

\* What a dispatch does to the table: the first ready task, which is not the
\* caller and was not Running, is now current and the only Running one.
<0>DispatchFacts.
      ASSUME Inv, initialized, NEW s \in {"Ready", "Sleeping", "Exited"},
             NEW p, Dispatch(Marked(s), p)
      PROVE  /\ current' \in Tasks /\ current' # current
             /\ Marked(s)[current'] = "Ready"
             /\ wake_sleepers(current') = "Ready"
             /\ left[current'] = 0
             /\ state' = [Marked(s) EXCEPT ![current'] = "Running"]
             /\ state'[current] = s
             /\ state' \in [Slots -> States]
             /\ \A t \in Slots : t # current /\ t # current' =>
                    state'[t] = wake_sleepers(t)
             /\ pc' = p
  <1> USE <0>DispatchFacts
  <1>1. PICK n \in Tasks : /\ next_ready(Marked(s), n)
                           /\ state' = [Marked(s) EXCEPT ![n] = "Running"]
                           /\ current' = n
                           /\ pc' = p
    BY ZenonT(60) DEF Dispatch
  <1>2. n \in Slots /\ n # current /\ Marked(s)[n] = "Ready"
    BY <1>1 DEF next_ready, ReadyOthers, Tasks
  <1>3. Marked(s)[n] = wake_sleepers(n)
    BY <1>2 DEF Marked
  <1>4. left[n] = 0
    BY <1>2, <1>3 DEF wake_sleepers, Inv, DueWhenReady, TypeOK
  <1>5. Marked(s) \in [Slots -> States]
    BY DEF Marked, wake_sleepers, Inv, TypeOK, States
  <1>6. state' \in [Slots -> States] /\ state'[current] = s
    BY <1>1, <1>2, <1>5 DEF Marked, Inv, TypeOK, States
  <1>7. \A t \in Slots : t # current /\ t # n => state'[t] = wake_sleepers(t)
    BY <1>1, <1>2, <1>5 DEF Marked
  <1> QED
    BY <1>1, <1>2, <1>3, <1>4, <1>6, <1>7

\* What waking does to a task that is not current: it stays what it is, or a
\* due sleeper becomes ready.
<0>WakeFacts.
      ASSUME Inv, initialized, pc # "panic", NEW t \in Slots, t # current
      PROVE  /\ wake_sleepers(t) # "Running"
             /\ wake_sleepers(t) = "Exited" <=> state[t] = "Exited"
             /\ wake_sleepers(t) = "Unused" <=> state[t] = "Unused"
             /\ wake_sleepers(t) \in {"Ready", "Unused"} => left[t] = 0
             /\ wake_sleepers(t) \in States
  <1> USE <0>WakeFacts
  <1> QED BY DEF wake_sleepers, Inv, OneRunning, DueWhenReady, TypeOK, States

\* A dispatch from the running task keeps the invariant, whatever the caller
\* is marked with, provided the frame the switch will save matches it.
<0>DispatchInv.
      ASSUME Inv, initialized,
             pc \in {"body", "idle", "sleep"},
             NEW s \in {"Ready", "Sleeping", "Exited"},
             NEW p \in {"switch", "exitSwitch"},
             p = "exitSwitch" <=> s = "Exited",
             s = "Ready" => pc # "sleep",
             Dispatch(Marked(s), p),
             resched' \in BOOLEAN, intr' = intr,
             UNCHANGED <<len, left, ctx, cpu, phase>>
      PROVE  Inv'
  <1> USE <0>DispatchInv
  <1> USE DEF initialized
  <1>1. /\ current' \in Tasks /\ current' # current /\ left[current'] = 0
        /\ state' = [Marked(s) EXCEPT ![current'] = "Running"]
        /\ state'[current] = s /\ state' \in [Slots -> States] /\ pc' = p
        /\ \A t \in Slots : t # current /\ t # current' =>
              state'[t] = wake_sleepers(t)
        /\ wake_sleepers(current') = "Ready"
    BY <0>DispatchFacts
  <1>2. cpu = current /\ cpu \in Slots /\ current' \in Slots
    BY <1>1 DEF Inv, ExecutingIsCurrent, TypeOK, Tasks
  <1>3. state'[current'] = "Running"
    BY <1>1, <1>2 DEF Marked
  <1>4. TypeOK'
    BY <1>1, <1>2 DEF Inv, TypeOK, Points
  <1>5. TableShape'
    <2>1. current < len /\ state[current] # "Unused"
      BY <1>2 DEF Inv, IndicesValid, OneRunning
    <2>2. \A t \in Slots : state'[t] = "Unused" <=> t >= len'
      BY <1>1, <1>2, <1>3, <2>1, <0>WakeFacts DEF Inv, TableShape, TypeOK, Tasks, Slots
    <2> QED BY <2>2 DEF Inv, TableShape
  <1>6. IndicesValid'
    BY <1>1 DEF Inv, IndicesValid, Tasks
  <1>7. OneRunning'
    BY <1>1, <1>2, <1>3, <0>WakeFacts DEF OneRunning
  <1>8. ExecutingIsCurrent' /\ LeavingState'
    BY <1>1, <1>2 DEF ExecutingIsCurrent, LeavingState
  <1>9. ContextsResumable'
    <2>1. ASSUME NEW t \in Tasks', t # cpu'
          PROVE  ctx'[t] \in IF state'[t] = "Exited" THEN {"ExitCall"}
                                                   ELSE {"Trampoline", "Call"}
      <3>1. t \in Tasks \ {cpu} /\ t \in Slots
        BY <2>1 DEF Tasks
      <3>2. state'[t] = "Exited" <=> state[t] = "Exited"
        BY <1>1, <1>2, <1>3, <3>1, <0>WakeFacts DEF wake_sleepers
      <3> QED
        BY <3>1, <3>2, ZenonT(60) DEF Inv, ContextsResumable
    <2> QED
      BY <1>1, <1>2, <2>1 DEF ContextsResumable
  <1>10. DueWhenReady'
    <2>1. s = "Ready" => left[current] = 0
      BY DEF Inv, DueWhenReady, IndicesValid, OneRunning
    <2> QED
      BY <1>1, <1>2, <1>3, <2>1, <0>WakeFacts DEF DueWhenReady
  <1> QED
    BY <1>4, <1>5, <1>6, <1>7, <1>8, <1>9, <1>10 DEF Inv

\* The caller that finds no other ready task stays the Running one, and only
\* due sleepers have been woken.
<0>StayInv.
      ASSUME Inv, initialized,
             pc \in {"body", "idle", "sleep"},
             NEW s \in {"Ready", "Sleeping"},
             state' = [Marked(s) EXCEPT ![current] = "Running"],
             pc' \in {"body", "wait"},
             pc' = "body" => pc # "sleep",
             resched' \in BOOLEAN, intr' = intr,
             UNCHANGED <<len, left, ctx, cpu, current, phase>>
      PROVE  Inv'
  <1> USE <0>StayInv
  <1> USE DEF initialized
  <1>1. cpu = current /\ current \in Slots /\ current < len
    BY DEF Inv, ExecutingIsCurrent, TypeOK, IndicesValid
  <1>2. state'[current] = "Running" /\ state[current] = "Running"
    BY <1>1 DEF Marked, Inv, OneRunning
  <1>3. \A t \in Slots : t # current => state'[t] = wake_sleepers(t)
    BY <1>1 DEF Marked
  <1>4. state' \in [Slots -> States]
    BY <1>1 DEF Marked, wake_sleepers, Inv, TypeOK, States
  <1>5. TypeOK'
    BY <1>4 DEF Inv, TypeOK, Points
  <1>6. TableShape'
    BY <1>1, <1>2, <1>3, <0>WakeFacts DEF Inv, TableShape, TypeOK, Slots
  <1>7. IndicesValid' /\ ExecutingIsCurrent' /\ LeavingState'
    BY <1>1 DEF Inv, IndicesValid, ExecutingIsCurrent, LeavingState
  <1>8. OneRunning'
    BY <1>2, <1>3, <0>WakeFacts, ZenonT(60) DEF OneRunning
  <1>9. ContextsResumable'
    BY <1>1, <1>3 DEF Inv, ContextsResumable, Tasks, wake_sleepers
  <1>10. DueWhenReady'
    BY <1>1, <1>2, <1>3, <0>WakeFacts DEF Inv, DueWhenReady
  <1> QED
    BY <1>5, <1>6, <1>7, <1>8, <1>9, <1>10 DEF Inv

\* Every step of the scheduler, of the code around it and of the interrupts
\* keeps the invariant.
<0>NextInv.
      Inv /\ [Next]_vars => Inv'
  <1> SUFFICES ASSUME Inv, [Next]_vars PROVE Inv'
    OBVIOUS
  <1>0. Boot \in Slots /\ Worker \in Slots /\ Boot # Worker
    BY BoundsAssumption DEF Boot, Worker, Slots
  <1>1. CASE init
    <2>1. /\ len = 0 /\ len' = 2 /\ pc = "body" /\ pc' = pc
          /\ state' = [state EXCEPT ![Boot] = "Running", ![Worker] = "Ready"]
          /\ ctx' = [ctx EXCEPT ![Worker] = "Trampoline"]
          /\ current' = Boot /\ cpu' = Boot /\ cpu = Boot /\ current = Boot
          /\ UNCHANGED <<left, intr, resched, phase>>
      BY <1>1 DEF init, initialized, Inv, TypeOK, IndicesValid
    <2>2. \A t \in Slots : state[t] = "Unused"
      BY <2>1 DEF Inv, TableShape, Slots
    <2>3. TypeOK'
      BY <2>1, <1>0, BoundsAssumption DEF Inv, TypeOK, States, Frames
    <2>4. state'[Boot] = "Running" /\ state'[Worker] = "Ready"
          /\ \A t \in Slots \ {Boot, Worker} : state'[t] = "Unused"
      BY <2>1, <2>2, <1>0 DEF Inv, TypeOK
    <2>5. TableShape' /\ IndicesValid'
      <3>1. \A t \in Slots : t >= len' <=> t \notin {Boot, Worker}
        BY <2>1, BoundsAssumption DEF Slots, Boot, Worker
      <3>2. \A t \in Slots : state'[t] = "Unused" <=> t >= len'
        <4>1. ASSUME NEW t \in Slots, t \in {Boot, Worker} PROVE state'[t] # "Unused"
          BY <2>4, <4>1
        <4>2. ASSUME NEW t \in Slots, t \notin {Boot, Worker} PROVE state'[t] = "Unused"
          BY <2>4, <4>2
        <4> QED
          BY <3>1, <4>1, <4>2, ZenonT(60)
      <3>4. TableShape'
        <4>1. len' >= 2
          BY <2>1
        <4> QED
          BY <3>2, <4>1 DEF TableShape
      <3>3. IndicesValid'
        BY <2>1 DEF IndicesValid, initialized, Boot
      <3> QED
        BY <3>3, <3>4
    <2>8. OneRunning' /\ ExecutingIsCurrent' /\ LeavingState'
      BY <2>1, <2>4, <1>0, ZenonT(60) DEF OneRunning, ExecutingIsCurrent, LeavingState
    <2>6. ContextsResumable'
      BY <2>1, <2>4, <1>0 DEF ContextsResumable, Tasks, Slots, Boot, Worker, Inv, TypeOK
    <2>7. DueWhenReady'
      BY <2>1, <2>2, <2>4, <1>0 DEF Inv, DueWhenReady
    <2> QED
      BY <2>3, <2>5, <2>6, <2>7, <2>8 DEF Inv
  <1>2. CASE spawn
    <2>1. /\ len \in Slots /\ len > 0 /\ len' = len + 1 /\ pc = "body"
          /\ state' = [state EXCEPT ![len] = "Ready"]
          /\ ctx' = [ctx EXCEPT ![len] = "Trampoline"]
          /\ UNCHANGED <<left, current, cpu, pc, intr, resched, phase>>
          /\ cpu = current /\ current < len
      BY <1>2, BoundsAssumption
         DEF spawn, initialized, Slots, Inv, TypeOK, ExecutingIsCurrent, IndicesValid
    <2>2. state[len] = "Unused" /\ left[len] = 0
      BY <2>1 DEF Inv, TypeOK, TableShape, DueWhenReady
    <2>3. TypeOK'
      BY <2>1, BoundsAssumption DEF Inv, TypeOK, States, Frames, Slots
    <2>4. TableShape' /\ IndicesValid' /\ OneRunning' /\ ExecutingIsCurrent' /\ LeavingState'
      BY <2>1, <2>2 DEF Inv, TypeOK, TableShape, IndicesValid, OneRunning, Slots,
         ExecutingIsCurrent, LeavingState, initialized
    <2>5. ContextsResumable'
      BY <2>1, <2>2 DEF Inv, TypeOK, ContextsResumable, Tasks, Slots
    <2>6. DueWhenReady'
      BY <2>1, <2>2 DEF Inv, TypeOK, DueWhenReady
    <2> QED
      BY <2>3, <2>4, <2>5, <2>6 DEF Inv
  <1>3. ASSUME Yield, initialized, pc \in {"body", "idle"}, resched' \in BOOLEAN
        PROVE  Inv'
    <2>1. wake_sleepers(current) = "Running"
      BY <1>3 DEF wake_sleepers, Inv, OneRunning, TypeOK
    <2>2. \/ /\ state' = [Marked("Ready") EXCEPT ![current] = "Running"]
             /\ pc' = "body" /\ UNCHANGED current
          \/ Dispatch(Marked("Ready"), "switch")
      BY <1>3, <2>1 DEF Yield
    <2>3. UNCHANGED <<len, left, ctx, cpu, intr, phase>>
      BY <1>3 DEF Yield
    <2> QED
      BY <1>3, <2>2, <2>3, <0>StayInv, <0>DispatchInv
  <1>4. CASE yield_now
    BY <1>3, <1>4 DEF yield_now, Inv, TypeOK
  <1>5. CASE checkpoint
    <2>1. CASE resched
      BY <1>3, <1>5, <2>1, ZenonT(60) DEF checkpoint
    <2>2. CASE ~resched
      BY <1>5, <2>2, ZenonT(60)
         DEF checkpoint, Inv, TypeOK, Points, TableShape, IndicesValid, OneRunning,
             ExecutingIsCurrent, LeavingState, ContextsResumable, DueWhenReady, Tasks, initialized
    <2> QED BY <2>1, <2>2
  <1>6. ASSUME NEW n \in 1 .. MaxSleep, sleep_ticks(n) PROVE Inv'
    <2>1. /\ pc = "body" /\ pc' \in {"sleep", "wait"} /\ cpu = current
          /\ ~initialized => pc' = "wait"
          /\ left' = [left EXCEPT ![cpu] = n]
          /\ UNCHANGED <<len, state, ctx, current, cpu, intr, resched, phase>>
      BY <1>6 DEF sleep_ticks, Inv, ExecutingIsCurrent
    <2>2. TypeOK'
      BY <2>1, BoundsAssumption DEF Inv, TypeOK, Points
    <2>3. DueWhenReady'
      BY <2>1 DEF Inv, TypeOK, DueWhenReady, OneRunning, IndicesValid, TableShape, initialized, Boot, Slots
    <2> QED
      BY <2>1, <2>2, <2>3
         DEF Inv, TableShape, IndicesValid, OneRunning, ExecutingIsCurrent, LeavingState,
             ContextsResumable, Tasks, initialized
  <1>7. CASE Sleep
    BY <1>7, <0>StayInv, <0>DispatchInv, ZenonT(60) DEF Sleep, Inv, TypeOK, IndicesValid
  <1>8. CASE wait_ticks
    BY <1>8 DEF wait_ticks, Inv, TypeOK, Points, TableShape, IndicesValid, OneRunning,
       ExecutingIsCurrent, LeavingState, ContextsResumable, DueWhenReady, Tasks, initialized
  <1>9. CASE exit_current
    <2>1. CASE Dispatch(Marked("Exited"), "exitSwitch") /\ UNCHANGED intr
      BY <1>9, <2>1, <0>DispatchInv DEF exit_current, Inv, TypeOK
    <2>2. CASE /\ state' = Marked("Exited") /\ pc' = "panic" /\ intr' = FALSE
               /\ UNCHANGED current
      <3>1. /\ pc = "body" /\ initialized /\ UNCHANGED <<len, left, ctx, cpu, resched, phase>>
            /\ cpu = current /\ current \in Slots /\ current < len
        BY <1>9 DEF exit_current, Inv, TypeOK, ExecutingIsCurrent, IndicesValid
      <3>2. /\ state'[current] = "Exited" /\ state' \in [Slots -> States]
            /\ \A t \in Slots : t # current => state'[t] = wake_sleepers(t)
        BY <2>2, <3>1 DEF Marked, wake_sleepers, Inv, TypeOK, States
      <3>3. TypeOK'
        BY <2>2, <3>1, <3>2, ZenonT(60) DEF Inv, TypeOK, Points
      <3>4. TableShape'
        BY <3>1, <3>2, <2>2, <0>WakeFacts DEF Inv, TableShape, TypeOK, Slots
      <3>5. IndicesValid' /\ OneRunning' /\ ExecutingIsCurrent' /\ LeavingState'
        BY <2>2, <3>1 DEF Inv, IndicesValid, OneRunning, ExecutingIsCurrent, LeavingState, initialized
      <3>6. ContextsResumable'
        BY <2>2, <3>1, <3>2 DEF Inv, ContextsResumable, Tasks, wake_sleepers
      <3>7. DueWhenReady'
        BY <2>2, <3>1, <3>2, <0>WakeFacts DEF Inv, DueWhenReady
      <3> QED
        BY <3>3, <3>4, <3>5, <3>6, <3>7 DEF Inv
    <2> QED
      BY <1>9, <2>1, <2>2, ZenonT(60) DEF exit_current
  <1>10. CASE generic_context_switch
    <2>1. /\ pc \in {"switch", "exitSwitch"} /\ cpu' = current
          /\ ctx' = [ctx EXCEPT ![cpu] = IF pc = "switch" THEN "Call" ELSE "ExitCall",
                                ![current] = "None"]
          /\ UNCHANGED <<len, state, left, current, intr, resched, phase>>
          /\ initialized /\ cpu # current /\ cpu \in Tasks /\ current \in Tasks
      BY <1>10 DEF generic_context_switch, Inv, IndicesValid, ContextsResumable, Tasks, TypeOK
    <2>2. state[current] = "Running" /\ ctx[current] \in {"Trampoline", "Call"}
      BY <2>1 DEF Inv, OneRunning, ContextsResumable, TypeOK
    <2>3. pc' \in {"trampoline", "body"}
      BY <1>10, <2>2 DEF generic_context_switch
    <2>4. TypeOK'
      BY <2>1, <2>3 DEF Inv, TypeOK, Points, Frames
    <2>5. TableShape' /\ IndicesValid' /\ OneRunning' /\ ExecutingIsCurrent' /\ LeavingState' /\ DueWhenReady'
      BY <2>1, <2>3 DEF Inv, TableShape, IndicesValid, OneRunning, ExecutingIsCurrent,
         LeavingState, DueWhenReady, initialized, Tasks
    <2>6. ContextsResumable'
      <3>1. ASSUME NEW t \in Tasks, t # current
            PROVE  ctx'[t] \in IF state[t] = "Exited" THEN {"ExitCall"}
                                                     ELSE {"Trampoline", "Call"}
        <4>1. CASE t = cpu
          BY <2>1, <4>1, <3>1 DEF Inv, TypeOK, LeavingState, Tasks
        <4>2. CASE t # cpu
          BY <2>1, <4>2, <3>1 DEF Inv, TypeOK, ContextsResumable, Tasks
        <4> QED BY <4>1, <4>2
      <3> QED
        BY <2>1, <2>3, <3>1, ZenonT(60) DEF ContextsResumable, Tasks
    <2> QED
      BY <2>4, <2>5, <2>6 DEF Inv
  <1>11. CASE task_trampoline
    BY <1>11, ZenonT(60) DEF task_trampoline, Inv, TypeOK, Points, TableShape, IndicesValid, OneRunning,
       ExecutingIsCurrent, LeavingState, ContextsResumable, DueWhenReady, Tasks, initialized
  <1>12. CASE Halt \/ enter \/ SysExit \/ DeviceInterrupt
    BY <1>12, ZenonT(60) DEF Halt, enter, SysExit, DeviceInterrupt, Resume, Inv, TypeOK, Points, TableShape,
       IndicesValid, OneRunning, ExecutingIsCurrent, LeavingState, ContextsResumable,
       DueWhenReady, Tasks, initialized
  <1>13. CASE TimerInterrupt
    <2>0. /\ pc' = Resume
          /\ UNCHANGED <<len, state, ctx, current, cpu, intr>>
          /\ left' = [t \in Slots |-> IF left[t] > 0 THEN left[t] - 1 ELSE 0]
      BY <1>13 DEF TimerInterrupt
    <2>6. \/ pc' = pc
          \/ pc = "waitHlt" /\ pc' = "wait"
          \/ pc = "hlt" /\ pc' = "idle"
      BY <2>0 DEF Resume
    <2>1. pc' \in Points
      BY <2>6 DEF Inv, TypeOK, Points
    <2>2. phase' \in 0 .. Quantum - 1 /\ resched' \in BOOLEAN
      BY <1>13, BoundsAssumption DEF TimerInterrupt, Inv, TypeOK
    <2>3. TypeOK'
      BY <2>0, <2>1, <2>2, BoundsAssumption DEF Inv, TypeOK
    <2>4. \A t \in Slots : left[t] = 0 => left'[t] = 0
      BY <2>0
    <2>5. DueWhenReady'
      BY <2>0, <2>6, <2>4 DEF Inv, DueWhenReady, TypeOK
    <2> QED
      BY <2>0, <2>6, <2>3, <2>5
         DEF Inv, TableShape, IndicesValid, OneRunning, ExecutingIsCurrent, LeavingState,
             ContextsResumable, Tasks, initialized
  <1>14. CASE UNCHANGED vars
    BY <1>14, ZenonT(60) DEF vars, Inv, TypeOK, TableShape, IndicesValid, OneRunning, ExecutingIsCurrent,
       LeavingState, ContextsResumable, DueWhenReady, Tasks, initialized
  <1> QED
    BY <1>1, <1>2, <1>4, <1>5, <1>6, <1>7, <1>8, <1>9, <1>10, <1>11, <1>12, <1>13, <1>14 DEF Next
<0> QED BY <0>InitInv, <0>NextInv, PTL DEF Spec

\* The variables keep their types; exactly one task is marked Running, and it is
\* SCHEDULER.current; and the code that runs belongs to it except between
\* picking the next task and switching to it.
THEOREM OneTaskRunsHolds == Spec => []OneTaskRuns
<1>1. Inv => OneTaskRuns
  BY DEF Inv, OneTaskRuns
<1> QED
  BY <1>1, InvHolds, PTL

\* A context switch always finds a frame to resume from, and never the frame
\* of an exited task.
THEOREM ContextsResumableHolds == Spec => []ContextsResumable
BY InvHolds, PTL DEF Inv

\* sleep_ticks never returns early.
THEOREM NoEarlyReturnHolds == Spec => []NoEarlyReturn
<1>1. Inv => NoEarlyReturn
  BY DEF Inv, NoEarlyReturn, DueWhenReady, ExecutingIsCurrent
<1> QED
  BY <1>1, InvHolds, PTL

-----------------------------------------------------------------------------
(* Round robin *)

\* The round-robin property of next_ready for every table: a switch that
\* leaves a ready task waiting brings the cursor strictly closer to it.
THEOREM RoundRobinHolds == Spec => RoundRobin

\* A dispatch that leaves t ready brings the cursor strictly closer to t.
<0>DispatchCloser.
      ASSUME Inv, initialized, pc # "panic",
             NEW s \in {"Ready", "Sleeping", "Exited"}, NEW p,
             Dispatch(Marked(s), p), len' = len,
             NEW t \in Slots, state[t] = "Ready", state'[t] = "Ready"
      PROVE  Offset(t)' < Offset(t)
  <1> USE <0>DispatchCloser
  <1>1. PICK n \in Tasks : /\ next_ready(Marked(s), n)
                           /\ state' = [Marked(s) EXCEPT ![n] = "Running"]
                           /\ current' = n
    BY ZenonT(60) DEF Dispatch
  <1>2. /\ t # current /\ t \in Tasks /\ Marked(s)[t] = "Ready"
    BY DEF Inv, OneRunning, TableShape, TypeOK, Tasks, Slots, Marked, wake_sleepers
  <1>3. t # n
    BY <1>1 DEF Marked, Tasks
  <1>4. n # current /\ Offset(n) <= Offset(t)
    BY <1>1, <1>2 DEF next_ready, ReadyOthers
  <1>5. /\ t \in Int /\ n \in Int /\ current \in Int /\ len \in Int
        /\ 0 <= t /\ t < len /\ 0 <= n /\ n < len /\ 0 <= current /\ current < len
    BY <1>1, <1>2, BoundsAssumption DEF Tasks, Slots, Inv, TypeOK, IndicesValid
  <1> QED
    BY <1>1, <1>2, <1>3, <1>4, <1>5 DEF Offset
<0> QED
  <1> DEFINE Closer == \A t \in Slots :
                state[t] = "Ready" /\ state'[t] = "Ready" /\ current' # current
                    => Offset(t)' < Offset(t)
  <1>1. Inv /\ [Next]_vars => [Closer]_vars
    <2> SUFFICES ASSUME Inv, Next, current' # current PROVE Closer
      BY DEF vars
    <2>1. \/ /\ pc \in {"body", "idle"} /\ Yield /\ initialized
          \/ Sleep
          \/ exit_current
      BY ZenonT(60) DEF Next, init, spawn, yield_now, checkpoint, sleep_ticks, wait_ticks,
         generic_context_switch, task_trampoline, Halt, enter, SysExit,
         TimerInterrupt, DeviceInterrupt, Inv, IndicesValid
    <2>2. initialized /\ pc # "panic" /\ len' = len
      BY <2>1 DEF Yield, Sleep, exit_current, Inv, IndicesValid
    <2>3. wake_sleepers(current) = "Running"
      BY <2>2 DEF wake_sleepers, Inv, OneRunning, TypeOK
    <2>4. \E s \in {"Ready", "Sleeping", "Exited"}, p \in {"switch", "exitSwitch"} :
             Dispatch(Marked(s), p)
      BY <2>1, <2>3 DEF Yield, Sleep, exit_current
    <2> QED
      BY <2>2, <2>4, <0>DispatchCloser, ZenonT(60)
  <1> QED
    BY <1>1, InvHolds, PTL DEF Spec, RoundRobin

-----------------------------------------------------------------------------
(* Panics *)

\* What the absence of panics rests on: the boot task never exits and has no
\* trampoline frame, so unless it sleeps there is a task to switch to.
BootLives ==
    /\ initialized => state[Boot] \in {"Running", "Ready", "Sleeping"}
    /\ ctx[Boot] # "Trampoline"
    /\ pc = "trampoline" => current # Boot
    /\ PanicOnlyIfBootSleeps

\* Whatever roles the tasks have, exit_current finds a successor unless the
\* boot task sleeps, and no exited or entry-less task is ever resumed.
THEOREM PanicOnlyIfBootSleepsHolds == Spec => []PanicOnlyIfBootSleeps
<1>1. Init => BootLives
  BY BoundsAssumption
     DEF Init, BootLives, PanicOnlyIfBootSleeps, initialized, Slots, Boot
<1>2. Inv /\ BootLives /\ [Next]_vars => BootLives'
  <2> SUFFICES ASSUME Inv, BootLives, [Next]_vars PROVE BootLives'
    OBVIOUS
  <2> USE DEF PanicOnlyIfBootSleeps
  <2>0. Boot \in Slots /\ Worker \in Slots /\ Boot # Worker
    BY BoundsAssumption DEF Boot, Worker, Slots
  <2>1. CASE init
    BY <2>1, <2>0 DEF init, BootLives, Inv, TypeOK
  <2>2. CASE spawn
    BY <2>2, <2>0 DEF spawn, BootLives, Inv, TypeOK, initialized, Boot
  <2> DEFINE Kept(s) == \/ state' = [Marked(s) EXCEPT ![current] = "Running"]
                        \/ \E p \in {"switch", "exitSwitch"} : Dispatch(Marked(s), p)
  <2>3. ASSUME initialized, NEW s \in {"Ready", "Sleeping", "Exited"}, Kept(s),
               s # "Exited" \/ current # Boot
        PROVE  state'[Boot] \in {"Running", "Ready", "Sleeping"}
    <3>1. wake_sleepers(Boot) \in {"Running", "Ready", "Sleeping"}
      BY <2>3 DEF wake_sleepers, BootLives
    <3>2. CASE state' = [Marked(s) EXCEPT ![current] = "Running"]
      BY <2>3, <3>1, <3>2, <2>0 DEF Marked
    <3>3. CASE \E p \in {"switch", "exitSwitch"} : Dispatch(Marked(s), p)
      BY <2>3, <3>1, <3>3, <2>0 DEF Marked, Dispatch, Tasks
    <3> QED BY <2>3, <3>2, <3>3
  <2>4. CASE yield_now \/ checkpoint
    <3>1. ASSUME Yield, initialized, pc # "panic" PROVE BootLives'
      <4>1. wake_sleepers(current) = "Running"
        BY <3>1 DEF wake_sleepers, Inv, OneRunning, TypeOK
      <4>2. Kept("Ready") /\ pc' \in {"body", "switch"} /\ UNCHANGED <<len, ctx>>
        BY <3>1, <4>1 DEF Yield, Dispatch
      <4> QED
        BY <2>3, <3>1, <4>2 DEF BootLives, initialized
    <3>2. CASE checkpoint /\ ~resched
      BY <3>2, ZenonT(60) DEF checkpoint, BootLives, initialized
    <3> QED BY <2>4, <3>1, <3>2, ZenonT(60) DEF yield_now, checkpoint
  <2>5. CASE Sleep
    <3>1. initialized /\ UNCHANGED <<len, ctx>>
      BY <2>5 DEF Sleep, Inv, IndicesValid
    <3>2. Kept("Sleeping") /\ pc' \in {"wait", "switch"}
      BY <2>5 DEF Sleep, Dispatch
    <3> QED
      BY <2>3, <3>1, <3>2, ZenonT(60) DEF BootLives, initialized
  <2>6. CASE exit_current
    <3>1. initialized /\ current # Boot /\ UNCHANGED <<len, ctx>>
      BY <2>6, RolesAssumption DEF exit_current, Inv, ExecutingIsCurrent
    <3>2. CASE ReadyOthers(Marked("Exited")) = {} /\ state' = Marked("Exited")
      <4>1. Boot \in Tasks
        BY <3>1, <2>0 DEF Tasks, initialized, Boot, Inv, TypeOK
      <4>2. state'[Boot] = wake_sleepers(Boot) /\ state'[Boot] # "Ready"
        BY <3>1, <3>2, <4>1, <2>0 DEF ReadyOthers, Marked
      <4>3. state[Boot] # "Running"
        BY <3>1, <2>6, <2>0 DEF exit_current, Inv, OneRunning
      <4>4. state'[Boot] = "Sleeping"
        BY <3>1, <4>2, <4>3 DEF wake_sleepers, BootLives
      <4> QED
        BY <2>6, <3>1, <3>2, <4>4, ZenonT(60) DEF exit_current, Dispatch, BootLives, initialized
    <3>3. CASE Dispatch(Marked("Exited"), "exitSwitch")
      BY <2>3, <3>1, <3>3, ZenonT(60) DEF Dispatch, BootLives, initialized
    <3> QED BY <2>6, <3>2, <3>3 DEF exit_current
  <2>7. CASE generic_context_switch
    <3>1. initialized /\ current \in Tasks \ {cpu} /\ cpu \in Slots
      BY <2>7 DEF generic_context_switch, Inv, IndicesValid, ContextsResumable, Tasks, TypeOK
    <3>2. ctx[current] \in {"Trampoline", "Call"}
      BY <3>1, <2>7 DEF generic_context_switch, Inv, OneRunning, ContextsResumable, Tasks
    <3> QED
      BY <2>7, <3>1, <3>2, <2>0 DEF generic_context_switch, BootLives, initialized, Inv, TypeOK, Tasks
  <2>8. CASE TimerInterrupt \/ DeviceInterrupt
    BY <2>8 DEF TimerInterrupt, DeviceInterrupt, Resume, BootLives, initialized
  <2>9. CASE \/ \E n \in 1 .. MaxSleep : sleep_ticks(n)
             \/ wait_ticks \/ task_trampoline \/ Halt \/ enter \/ SysExit
    BY <2>9, ZenonT(60) DEF sleep_ticks, wait_ticks, task_trampoline, Halt, enter, SysExit,
       BootLives, initialized
  <2>10. CASE UNCHANGED vars
    BY <2>10, ZenonT(60) DEF vars, BootLives, initialized
  <2> QED
    BY <2>1, <2>2, <2>4, <2>5, <2>6, <2>7, <2>8, <2>9, <2>10 DEF Next
<1> QED
  BY <1>1, <1>2, InvHolds, PTL DEF Spec, BootLives
==============================================================================
