------------------------------ MODULE Traffic ------------------------------
(***************************************************************************)
(* The traffic statistics of one peer, the only one of its tunnel: the     *)
(* device's counter, which restarts at zero with the device and with every *)
(* reload of its peers, the total kept in the peer's row, and the          *)
(* collector's tick, which polls, updates the row and takes samples in     *)
(* steps.  The peers of a tunnel do not interfere in the counting.  One    *)
(* counter stands for rx and tx, and a rate is the difference of samples.  *)
(***************************************************************************)
EXTENDS Integers

CONSTANT MaxBytes    \* bound: bytes the peer ever transfers

ASSUME TrafficAssumption == MaxBytes \in Nat

VARIABLES
    exists,      \* is there a row?
    rx,          \* rx_bytes
    seen,        \* last_seen_rx_raw
    raw,         \* the device's counter; Gone when it has no such peer
    poll,        \* what PollStats returned; Gone when tick holds nothing
    tick,        \* "idle", "update", or "total": the interface sample is next
    sum,         \* sumRx of the tick
    prev,        \* the collector's lastSeen of the peer
    lastTot,     \* and of the tunnel
    rate,        \* RxRate of the peer's latest sample
    total,       \* history: bytes really transferred
    top,         \* history: the most rx_bytes has been
    pollAt,      \* history: total at the poll
    sampleAt,    \* history: and at the poll of the latest sample; Gone when the next
                 \* rate has nothing to go by, see RateIsTraffic
    flow,        \* history: bytes between the polls of the last two samples
    restarted,   \* history: the counter has restarted since seen was written
    inexact      \* history: bytes went missing, see ExactCount

trafficVars == <<exists, rx, seen, raw, poll, tick, sum, prev, lastTot, rate, total,
                 top, pollAt, sampleAt, flow, restarted, inexact>>

Gone == -1
Bytes == 0 .. MaxBytes

TrafficTypeOK ==
    /\ exists \in BOOLEAN /\ rx \in Bytes /\ seen \in Bytes
    /\ raw \in Bytes \cup {Gone} /\ poll \in Bytes \cup {Gone}
    /\ tick \in {"idle", "update", "total"}
    /\ sum \in Bytes /\ prev \in Bytes /\ lastTot \in Bytes /\ rate \in Bytes
    /\ total \in Bytes /\ top \in Bytes /\ pollAt \in Bytes /\ sampleAt \in Bytes \cup {Gone} /\ flow \in Bytes
    /\ restarted \in BOOLEAN /\ inexact \in BOOLEAN

\* A peer that was just created in a tunnel that does not run.
TrafficInit ==
    /\ exists = TRUE /\ rx = 0 /\ seen = 0
    /\ raw = Gone /\ poll = Gone
    /\ tick = "idle" /\ sum = 0 /\ prev = 0 /\ lastTot = 0 /\ rate = 0
    /\ total = 0 /\ top = 0 /\ pollAt = 0 /\ sampleAt = Gone /\ flow = 0
    /\ restarted = FALSE /\ inexact = FALSE

\* The device's counter is lost.
Forget ==
    /\ restarted' = TRUE
    /\ inexact' = (inexact \/ (raw # Gone /\ (raw # (IF restarted THEN 0 ELSE seen) \/ poll # Gone)))

-----------------------------------------------------------------------------
(* The device and the requests *)

Transfer ==
    /\ raw # Gone /\ total < MaxBytes
    /\ raw' = raw + 1 /\ total' = total + 1
    /\ UNCHANGED <<exists, rx, seen, poll, tick, sum, prev, lastTot, rate, top, pollAt,
                   sampleAt, flow, restarted, inexact>>

\* Start, or a reload because some peer was created or deleted: the device is
\* configured anew with the rows there are.
DeviceConfigured ==
    /\ Forget
    /\ raw' = IF exists THEN 0 ELSE Gone
    /\ UNCHANGED <<exists, rx, seen, poll, tick, sum, prev, lastTot, rate, total, top, pollAt,
                   sampleAt, flow>>

DeviceCloses ==
    /\ raw # Gone
    /\ Forget
    /\ raw' = Gone
    /\ UNCHANGED <<exists, rx, seen, poll, tick, sum, prev, lastTot, rate, total, top, pollAt,
                   sampleAt, flow>>

\* PUT replaces the row, its counters included: by what the caller read earlier,
\* which may be more than there is after another's PUT, or by zero if the body
\* leaves them out.  (Nothing checks the number; that the row has had it before
\* is an assumption on the caller.)
PutCounters(n) ==
    /\ exists /\ n <= top /\ n # rx
    /\ rx' = n
    /\ inexact' = TRUE
    /\ sampleAt' = IF n > rx THEN Gone ELSE sampleAt
    /\ UNCHANGED <<exists, seen, raw, poll, tick, sum, prev, lastTot, rate, total, top, pollAt,
                   flow, restarted>>

DeleteRow ==
    /\ exists
    /\ exists' = FALSE
    /\ UNCHANGED <<rx, seen, raw, poll, tick, sum, prev, lastTot, rate, total, top, pollAt,
                   sampleAt, flow, restarted, inexact>>

\* The process restarts: the row stays, the collector has no memory.
CollectorRestarts ==
    /\ Forget
    /\ raw' = Gone /\ poll' = Gone
    /\ tick' = "idle" /\ sum' = 0 /\ prev' = 0 /\ lastTot' = 0 /\ rate' = 0
    /\ sampleAt' = Gone /\ flow' = 0
    /\ UNCHANGED <<exists, rx, seen, total, top, pollAt>>

-----------------------------------------------------------------------------
(* StatsCollector.tick *)

\* The tunnel is tracked and its device answers; perhaps without the peer.
PollStats ==
    /\ tick = "idle"
    /\ poll' = raw /\ pollAt' = total
    /\ tick' = IF raw = Gone THEN "total" ELSE "update"
    /\ sum' = 0
    /\ UNCHANGED <<exists, rx, seen, raw, prev, lastTot, rate, total, top, sampleAt, flow,
                   restarted, inexact>>

\* Mutation of Delta: a counter that went back counts for nothing.
DeltaForward == IF poll >= seen THEN poll - seen ELSE 0

\* Mutation of Delta: the counter is taken for what is new.
DeltaWhole == poll

\* The CASE of UpdateTraffic: a counter that went back has restarted at zero.
Delta == IF poll >= seen THEN poll - seen ELSE poll

\* Mutation of Rate: the difference to the start, not to the sample before.
RateTotal(n) == n

\* Per peer a rate is not negative.
Rate(n) == IF n >= prev THEN n - prev ELSE 0

\* One UPDATE of the row, the total read back, and the peer's sample.  After a
\* restart a counter that has already passed last_seen does not look new.
UpdateTraffic ==
    /\ tick = "update" /\ exists
    /\ rx' = rx + Delta /\ seen' = poll /\ top' = IF rx' > top THEN rx' ELSE top
    /\ restarted' = FALSE
    /\ inexact' = (inexact \/ (restarted /\ poll >= seen /\ seen > 0))
    /\ sum' = rx' /\ rate' = Rate(rx') /\ prev' = rx'
    /\ flow' = (IF sampleAt = Gone THEN rate' ELSE pollAt - sampleAt) /\ sampleAt' = pollAt
    /\ poll' = Gone /\ tick' = "total"
    /\ UNCHANGED <<exists, raw, lastTot, total, pollAt>>

\* GetByPubKey finds no row any more, or the UPDATE fails.
SkipTraffic ==
    /\ tick = "update"
    /\ poll' = Gone /\ tick' = "total"
    /\ UNCHANGED <<exists, rx, seen, raw, sum, prev, lastTot, rate, total, top, pollAt,
                   sampleAt, flow, restarted, inexact>>

\* The tunnel's sample; its rate is sum - lastTot, negative or not.
SampleTunnel ==
    /\ tick = "total"
    /\ lastTot' = sum
    /\ tick' = "idle" /\ sum' = 0
    /\ UNCHANGED <<exists, rx, seen, raw, poll, prev, rate, total, top, pollAt, sampleAt,
                   flow, restarted, inexact>>

TrafficNext ==
    \/ Transfer \/ DeviceConfigured \/ DeviceCloses \/ DeleteRow \/ CollectorRestarts
    \/ \E n \in Bytes : PutCounters(n)
    \/ PollStats \/ UpdateTraffic \/ SkipTraffic \/ SampleTunnel

TrafficSpec == TrafficInit /\ [][TrafficNext]_trafficVars

-----------------------------------------------------------------------------
(* Properties *)

\* However polls, restarts of the device and requests interleave, no byte is
\* counted twice: the row never shows more than the peer has transferred.  (A
\* PUT that brings a number the row has never reached breaks this at once; see
\* PutCounters.)
NoOvercount == rx <= total

\* And none is missing, the counter restarting or not, except in these cases:
\* bytes no tick had written when the counter restarted, a tick that straddled
\* the restart, a restarted counter that passed its last value before the next
\* tick, and a PUT with counters that are out of date.
ExactCount ==
    exists /\ ~inexact /\ poll = Gone =>
        total = rx + (IF raw = Gone THEN 0 ELSE IF restarted THEN raw ELSE raw - seen)

\* A peer's rate is traffic of the time between two polls, however late their
\* results are written.  Two rates are excepted: the first of a process, which
\* is the whole total, and one that is taken after a PUT has raised the total.
RateIsTraffic == rate <= flow

=============================================================================
