------------------------------ MODULE VirtioBlk ------------------------------
(***************************************************************************)
(* The virtio block driver, kernel/src/arch/virtio_blk.rs: one request at  *)
(* a time through one DMA page and a fixed chain of three descriptors,     *)
(* with a polling wait that gives up after a number of reads of the used   *)
(* index.  The device is external: it takes a request from the ring when   *)
(* it likes, moves the data, answers and advances the used index.          *)
(*                                                                         *)
(* Every store of the driver that the device can see is a step of its own. *)
(* The driver holds its lock for the whole of a call, so calls do not      *)
(* interleave with each other, only with the device.                       *)
(***************************************************************************)
EXTENDS Integers

CONSTANTS
    Sectors,       \* 0 .. capacity - 1
    Values,        \* what a sector may hold
    Indices,       \* 2^16: the ring indices are counted modulo this
    MaxPolls,      \* 20_000_000: reads of the used index before giving up
    MaxLate        \* bound on the requests left unanswered

ASSUME VirtioAssumption ==
    /\ Values # {}
    /\ Indices \in Nat \ {0}
    /\ MaxPolls \in Nat
    /\ MaxLate \in 1 .. Indices - 1

VARIABLES
    driver_at,  \* where the driver is
    call,       \* the call it is in: type, sector, value to write
    polls,      \* polls left
    result,     \* what the latest call returned
    last_used,
    header,     \* the DMA page: type and sector,
    dma_data,   \*   the data,
    status,     \*   the status byte
    flags,      \* whether descriptor 1 lets the device write the data
    avail,      \* the avail index
    used,       \* the used index
    taken,      \* requests the device has taken, modulo Indices
    device,     \* the request the device works on, and how far it is
    disk,
    asked,      \* the values that callers have asked to store in each sector
    gave_up     \* whether a call has returned before the device answered it

driver == <<driver_at, call, polls, result, last_used>>
page == <<header, dma_data, status, flags>>
blkVars == <<driver, page, avail, used, taken, device, disk, asked, gave_up>>

Initial == CHOOSE v \in Values : TRUE
Resting == [at |-> "rest"]

BlkInit ==
    /\ driver_at = "probe"
    /\ call = [type |-> "none"]
    /\ polls = 0
    /\ result = [call |-> [type |-> "none"], outcome |-> "none"]
    /\ last_used = 0
    /\ header = [type |-> "none"] /\ dma_data = Initial /\ status = 0 /\ flags = FALSE
    /\ avail = 0 /\ used = 0 /\ taken = 0
    /\ device = Resting
    /\ disk = [s \in Sectors |-> Initial]
    /\ asked = [s \in Sectors |-> {Initial}]
    /\ gave_up = FALSE

Increment(i) == (i + 1) % Indices

-----------------------------------------------------------------------------
(* The driver *)

\* probe finds a usable device, gives it the queue and sets DRIVER_OK.  If
\* there is no device, or it is not usable, the kernel goes on without a disk
\* and never calls the driver.
probe ==
    /\ driver_at = "probe"
    /\ driver_at' \in {"idle", "no device"}
    /\ UNCHANGED <<call, polls, result, last_used, page, avail, used, taken, device, disk, asked, gave_up>>

\* A bound of the model: no call while too many requests are unanswered.
Bounded == (avail - used) % Indices < MaxLate

read_sector(s) ==
    /\ driver_at = "idle" /\ Bounded
    /\ call' = [type |-> "read", sector |-> s]
    /\ driver_at' = "header"
    /\ UNCHANGED <<polls, result, last_used, page, avail, used, taken, device, disk, asked, gave_up>>

\* write_sector copies the caller's bytes into the DMA page first.
write_sector(s, v) ==
    /\ driver_at = "idle" /\ Bounded
    /\ call' = [type |-> "write", sector |-> s, value |-> v]
    /\ dma_data' = v
    /\ asked' = [asked EXCEPT ![s] = @ \cup {v}]
    /\ driver_at' = "header"
    /\ UNCHANGED <<polls, result, last_used, header, status, flags, avail, used, taken, device, disk, gave_up>>

\* Variants with a plausible fault, for testing the properties, precede the
\* definition they vary.

\* forgets to store the sector number if there is one in the page already
WriteHeader_keeps_sector ==
    /\ driver_at = "header"
    /\ header' = IF header.type = "none" THEN [type |-> call.type, sector |-> call.sector]
                 ELSE [header EXCEPT !.type = call.type]
    /\ driver_at' = "status"
    /\ UNCHANGED <<call, polls, result, last_used, dma_data, status, flags, avail, used, taken,
                   device, disk, asked, gave_up>>

WriteHeader ==
    /\ driver_at = "header"
    /\ header' = [type |-> call.type, sector |-> call.sector]
    /\ driver_at' = "status"
    /\ UNCHANGED <<call, polls, result, last_used, dma_data, status, flags, avail, used, taken,
                   device, disk, asked, gave_up>>

WriteStatus ==
    /\ driver_at = "status"
    /\ status' = 255
    /\ driver_at' = "desc"
    /\ UNCHANGED <<call, polls, result, last_used, header, dma_data, flags, avail, used, taken,
                   device, disk, asked, gave_up>>

\* write_desc, three times; only the flags of descriptor 1 ever change.
write_desc ==
    /\ driver_at = "desc"
    /\ flags' = (call.type = "read")
    /\ driver_at' = "publish"
    /\ UNCHANGED <<call, polls, result, last_used, header, dma_data, status, avail, used, taken,
                   device, disk, asked, gave_up>>

\* The ring slot (always descriptor 0), the avail index and the notification.
Publish ==
    /\ driver_at = "publish"
    /\ avail' = Increment(avail)
    /\ polls' = MaxPolls
    /\ driver_at' = "poll"
    /\ UNCHANGED <<call, result, last_used, page, used, taken, device, disk, asked, gave_up>>

Return(outcome) ==
    /\ result' = [call |-> call, outcome |-> outcome]
    /\ driver_at' = "idle"

\* waits for ever
Poll_for_ever ==
    /\ driver_at = "poll"
    /\ UNCHANGED <<call, polls, page, avail, used, taken, device, disk, asked, gave_up>>
    /\ \/ /\ used # last_used
          /\ last_used' = used
          /\ driver_at' = "check"
          /\ UNCHANGED result
       \/ /\ used = last_used
          /\ UNCHANGED <<result, last_used, driver_at>>

\* One turn of the polling loop.
Poll ==
    /\ driver_at = "poll"
    /\ UNCHANGED <<call, page, avail, used, taken, device, disk, asked>>
    /\ \/ /\ used # last_used
          /\ last_used' = used
          /\ driver_at' = "check"
          /\ UNCHANGED <<polls, result, gave_up>>
       \/ /\ used = last_used /\ polls > 0
          /\ polls' = polls - 1
          /\ UNCHANGED <<result, last_used, driver_at, gave_up>>
       \/ /\ used = last_used /\ polls = 0
          /\ Return("Io")
          /\ gave_up' = TRUE
          /\ UNCHANGED <<polls, last_used>>

\* does not look at the status byte
CheckStatus_ignored ==
    /\ driver_at = "check"
    /\ driver_at' = IF call.type = "read" THEN "copy" ELSE "idle"
    /\ result' = IF call.type = "read" THEN result ELSE [call |-> call, outcome |-> "Ok"]
    /\ UNCHANGED <<call, polls, last_used, page, avail, used, taken, device, disk, asked, gave_up>>

CheckStatus ==
    /\ driver_at = "check"
    /\ UNCHANGED <<call, polls, last_used, page, avail, used, taken, device, disk, asked, gave_up>>
    /\ \/ status # 0 /\ Return("Io")
       \/ status = 0 /\ call.type = "write" /\ Return("Ok")
       \/ status = 0 /\ call.type = "read" /\ driver_at' = "copy" /\ UNCHANGED result

\* read_sector copies the data out of the DMA page.
CopyOut ==
    /\ driver_at = "copy"
    /\ result' = [call |-> call, outcome |-> "Ok", value |-> dma_data]
    /\ driver_at' = "idle"
    /\ UNCHANGED <<call, polls, last_used, page, avail, used, taken, device, disk, asked, gave_up>>

-----------------------------------------------------------------------------
(* The device *)

\* It reads the descriptors and the header when it takes the request.
Fetch ==
    /\ device = Resting /\ taken # avail
    /\ device' = [at |-> "fetched", type |-> header.type, sector |-> header.sector,
                  fits |-> (flags = (header.type = "read"))]
    /\ taken' = Increment(taken)
    /\ UNCHANGED <<driver, page, avail, used, disk, asked, gave_up>>

\* It moves the data, or fails.
Transfer ==
    /\ device.at = "fetched"
    /\ \/ /\ device.fits /\ device.type = "read"
          /\ dma_data' = disk[device.sector]
          /\ device' = [at |-> "moved", answer |-> 0]
          /\ UNCHANGED disk
       \/ /\ device.fits /\ device.type = "write"
          /\ disk' = [disk EXCEPT ![device.sector] = dma_data]
          /\ device' = [at |-> "moved", answer |-> 0]
          /\ UNCHANGED dma_data
       \/ /\ device' = [at |-> "moved", answer |-> 1]
          /\ UNCHANGED <<dma_data, disk>>
    /\ UNCHANGED <<driver, header, status, flags, avail, used, taken, asked, gave_up>>

Answer ==
    /\ device.at = "moved"
    /\ status' = device.answer
    /\ device' = [at |-> "answered"]
    /\ UNCHANGED <<driver, header, dma_data, flags, avail, used, taken, disk, asked, gave_up>>

Complete ==
    /\ device.at = "answered"
    /\ used' = Increment(used)
    /\ device' = Resting
    /\ UNCHANGED <<driver, page, avail, taken, disk, asked, gave_up>>

-----------------------------------------------------------------------------

Submit == \/ WriteHeader \/ WriteStatus \/ write_desc \/ Publish
          \/ Poll \/ CheckStatus \/ CopyOut

BlkNext ==
    \/ probe
    \/ \E s \in Sectors : read_sector(s)
    \/ \E s \in Sectors, v \in Values : write_sector(s, v)
    \/ Submit
    \/ Fetch
    \/ Transfer
    \/ Answer
    \/ Complete

BlkSpec == BlkInit /\ [][BlkNext]_blkVars

\* A call runs on: the driver neither blocks nor yields.  The device may stop.
BlkFairSpec == BlkSpec /\ WF_blkVars(Submit)

-----------------------------------------------------------------------------
(* Properties *)

Index == 0 .. Indices - 1

\* Type invariant.
BlkTypeOK ==
    /\ driver_at \in {"probe", "no device", "idle", "header", "status", "desc", "publish", "poll", "check", "copy"}
    /\ polls \in 0 .. MaxPolls
    /\ last_used \in Index /\ avail \in Index /\ used \in Index /\ taken \in Index
    /\ dma_data \in Values /\ status \in {0, 1, 255} /\ flags \in BOOLEAN
    /\ device.at \in {"rest", "fetched", "moved", "answered"}
    /\ disk \in [Sectors -> Values]
    /\ asked \in [Sectors -> SUBSET Values]
    /\ gave_up \in BOOLEAN

\* Ok means done: as long as the driver has not given up on a request, when
\* write_sector returns Ok the sector holds the caller's bytes, and what
\* read_sector returns with Ok is what the sector holds, once the ring indices
\* have wrapped as well as before, and also after requests that failed.  Once
\* it has given up, a late completion is taken for the next request's.
OkMeansDone ==
    driver_at = "idle" /\ result.outcome = "Ok" /\ ~gave_up =>
        LET c == result.call
        IN  disk[c.sector] = IF c.type = "write" THEN c.value ELSE result.value

\* The variables keep their types and the ring indices their width, and as
\* long as the driver has not given up on a request, a sector never holds
\* anything but what a caller asked to store in it, also after requests that
\* failed: no request writes another one's bytes or to another one's sector.
\* Once it has, the next call overwrites the page the device still works on.
WritesGoHome ==
    /\ BlkTypeOK
    /\ ~gave_up => \A s \in Sectors : disk[s] \in asked[s]

\* Every call returns, even if the device never answers.
Returns == (driver_at \notin {"probe", "no device", "idle"}) ~> (driver_at = "idle")
=============================================================================
