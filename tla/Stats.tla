-------------------------------- MODULE Stats --------------------------------
(***************************************************************************)
(* The statistics sink of crab_utils/stats.cpp: the process-wide maps      *)
(* CrabStats::counters (name -> unsigned) and CrabStats::sw (name ->       *)
(* Stopwatch), and the RAII timer ScopedCrabStats, driven by the callers   *)
(* of split_dbm.cpp, which open a scope per operation and open further     *)
(* scopes from inside it (apply -> assign -> set, ...).                    *)
(*                                                                         *)
(* Time is Stopwatch::systemTime(), the process's user CPU time, a clock   *)
(* that only moves forward. The ghost busy[k] is the time during which a   *)
(* scope of the stopwatch k was open, since its measure last began; lost   *)
(* marks the stopwatches whose measure the code is known to drop.          *)
(***************************************************************************)
EXTENDS Integers, Sequences, TLC

CONSTANTS Ops,          \* the scope names the callers use
          Calls,        \* <<outer, inner>>: a scope inner opened inside outer
          MaxDepth,     \* bound on nested scopes
          MaxTime,      \* bound on the clock
          TickSizes,    \* the amounts of CPU time one step of work takes
          Width,        \* bits of unsigned
          Values,       \* the v of count_max and uset
          MicrosPerSec  \* the unit of systemTime(); 10^6 in the code

VARIABLES now,        \* systemTime()
          counters,   \* CrabStats::counters
          sw,         \* CrabStats::sw
          stack,      \* the ScopedCrabStats objects alive, innermost last
          busy,       \* ghost: time a scope of the key was open
          lost        \* ghost: keys whose measure the code has dropped
vars == <<now, counters, sw, stack, busy, lost>>

\* m_name: the operation's name, with ".last" appended for a scope opened
\* with reset
Name(n, reset) == <<n, IF reset THEN ".last" ELSE "">>
Keys == {Name(n, reset) : n \in Ops, reset \in BOOLEAN}
\* the counter a caller bumps before opening its scope: "SplitDBM.count.<op>"
CountKey(n) == <<"count", n>>

-----------------------------------------------------------------------------
(* Stopwatch                                                               *)

\* Stopwatch::start (and the constructor, which calls it)
SwStart(t) == [started |-> t, finished |-> -1, elapsed |-> 0]

\* Stopwatch::stop: only a running watch records its finish
SwStop(w, t) == IF w.finished < w.started THEN [w EXCEPT !.finished = t] ELSE w

\* Stopwatch::resume: only a stopped watch banks its interval and restarts
SwResumeKeepStart(w, t) ==
    IF w.finished >= w.started
    THEN [w EXCEPT !.elapsed = w.elapsed + w.finished - w.started, !.finished = -1]
    ELSE w
SwResumeKeepFinished(w, t) ==
    IF w.finished >= w.started
    THEN [w EXCEPT !.elapsed = w.elapsed + w.finished - w.started, !.started = t]
    ELSE w
SwResume(w, t) ==
    IF w.finished >= w.started
    THEN [started |-> t, finished |-> -1, elapsed |-> w.elapsed + w.finished - w.started]
    ELSE w

\* Stopwatch::getTimeElapsed at time t
GetTimeElapsed(w, t) ==
    IF w.finished < w.started THEN w.elapsed + t - w.started
    ELSE w.elapsed + w.finished - w.started

\* Stopwatch::Print: the hours and the minutes past the hour it writes for
\* an elapsed time, in integer arithmetic (the seconds, a float written
\* after them, are left out)
Hour == 3600 * MicrosPerSec
Minute == 60 * MicrosPerSec
HMSNoCarry(time) == [h |-> time \div Hour, m |-> time \div Minute]
HMS(time) ==
    LET h == time \div Hour
    IN  [h |-> h, m |-> time \div Minute - h * 60]

-----------------------------------------------------------------------------
(* CrabStats                                                               *)

\* sw[k]: std::map::operator[] default-constructs a missing stopwatch,
\* and the constructor starts it
At(k) == IF k \in DOMAIN sw THEN sw[k] ELSE SwStart(now)
Counter(n) == IF n \in DOMAIN counters THEN counters[n] ELSE 0

\* CrabStats::start, stop and resume: the new value of sw
CrabStart(k) == (k :> SwStart(now)) @@ sw
CrabStop(k) == (k :> SwStop(At(k), now)) @@ sw
CrabResume(k) == (k :> SwResume(At(k), now)) @@ sw

\* CrabStats::count: ++counters[name], modulo the width of unsigned
Count(n) == (n :> (Counter(n) + 1) % 2^Width) @@ counters

CountMax(n, v) ==
    /\ counters' = (n :> IF Counter(n) >= v THEN Counter(n) ELSE v) @@ counters
    /\ UNCHANGED <<now, sw, stack, busy, lost>>

USet(n, v) ==
    /\ counters' = (n :> v) @@ counters
    /\ UNCHANGED <<now, sw, stack, busy, lost>>

\* CrabStats::get reads through operator[], which inserts a zero counter
Get(n) ==
    /\ counters' = (n :> Counter(n)) @@ counters
    /\ UNCHANGED <<now, sw, stack, busy, lost>>

\* CrabStats::reset clears both maps, whatever scope is still open
Reset ==
    /\ counters' = <<>>
    /\ sw' = <<>>
    /\ busy' = [k \in Keys |-> 0]
    /\ lost' = [k \in Keys |-> \E i \in DOMAIN stack : stack[i].key = k]
    /\ UNCHANGED <<now, stack>>

-----------------------------------------------------------------------------
(* ScopedCrabStats, opened by a caller of split_dbm.cpp                    *)

OpenKeys == {stack[i].key : i \in DOMAIN stack}

\* A SplitDBM operation n begins: CrabStats::count("SplitDBM.count.n"),
\* then the ScopedCrabStats constructor, at top level or from inside the
\* operation whose scope is innermost.
Enter(n, reset) ==
    LET key == Name(n, reset)
    IN  /\ Len(stack) < MaxDepth
        /\ stack # <<>> => <<stack[Len(stack)].op, n>> \in Calls
        /\ counters' = Count(CountKey(n))
        /\ sw' = IF reset THEN CrabStart(key) ELSE CrabResume(key)
        /\ stack' = Append(stack, [op |-> n, key |-> key])
        /\ busy' = IF reset /\ key \notin OpenKeys THEN [busy EXCEPT ![key] = 0] ELSE busy
        /\ lost' = IF key \in OpenKeys THEN [lost EXCEPT ![key] = TRUE]
                   ELSE IF reset THEN [lost EXCEPT ![key] = FALSE] ELSE lost
        /\ UNCHANGED now

\* The destructor of the innermost scope: CrabStats::stop(m_name)
Exit ==
    /\ stack # <<>>
    /\ sw' = CrabStop(stack[Len(stack)].key)
    /\ stack' = SubSeq(stack, 1, Len(stack) - 1)
    /\ UNCHANGED <<now, counters, busy, lost>>

\* CPU time passes while the innermost operation works
Tick ==
    \E d \in TickSizes :
        /\ now + d <= MaxTime
        /\ now' = now + d
        /\ busy' = [k \in Keys |-> IF k \in OpenKeys THEN busy[k] + d ELSE busy[k]]
        /\ UNCHANGED <<counters, sw, stack, lost>>

Init == /\ now = 0
        /\ counters = <<>>
        /\ sw = <<>>
        /\ stack = <<>>
        /\ busy = [k \in Keys |-> 0]
        /\ lost = [k \in Keys |-> FALSE]

Next ==
    \/ \E n \in Ops, reset \in BOOLEAN : Enter(n, reset)
    \/ Exit
    \/ Tick
    \/ Reset
    \/ \E n \in Ops, v \in Values : CountMax(CountKey(n), v) \/ USet(CountKey(n), v)
    \/ \E n \in Ops : Get(CountKey(n))

Spec == Init /\ [][Next]_vars

-----------------------------------------------------------------------------
(* Properties                                                              *)

Measured(k) == IF k \in DOMAIN sw THEN GetTimeElapsed(sw[k], now) ELSE 0

\* The time a stopwatch reports (getTimeElapsed) never exceeds the time a
\* ScopedCrabStats of its name was open: resume, stop and the destructor
\* never count time outside a scope, across re-entries, nesting and reset.
NeverOvercounts == \A k \in Keys : Measured(k) <= busy[k]

\* Every stopwatch whose measure was not dropped (by a scope of the same
\* name opened inside another, or by reset() under an open scope) reports
\* exactly the time its scopes were open: the first resume() on a
\* default-constructed, already running stopwatch, and each later resume
\* after stop, bank and restart it correctly.
ElapsedExact == \A k \in Keys : ~lost[k] => Measured(k) = busy[k]

\* CrabStats::Print: the readout it writes for every stopwatch of sw (the
\* counters it writes as they are)
PrintReadouts == [k \in DOMAIN sw |-> HMS(GetTimeElapsed(sw[k], now))]

\* The readout CrabStats::Print writes for each stopwatch carries whole
\* minutes into hours: m is below 60, and h hours m minutes falls short of
\* the elapsed time by less than a minute.
ReadoutDenotesElapsed ==
    \A k \in DOMAIN sw :
        LET t == GetTimeElapsed(sw[k], now)
            r == PrintReadouts[k]
        IN  /\ r.m \in 0..59
            /\ r.h * Hour + r.m * Minute <= t /\ t < r.h * Hour + r.m * Minute + Minute
=============================================================================
