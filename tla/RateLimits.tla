------------------------------ MODULE RateLimits ------------------------------
(* The sliding windows of core/limit.rs as operators. A limiter is a sequence *)
(* of weights, newest first, each with the time it was put; its             *)
(* configuration is a set of limits over periods. Limiter is the case of one *)
(* configuration, MultiLimiter of several. Time is a number of ticks and      *)
(* never runs back, so that the sequence is sorted by time.                   *)
EXTENDS Integers, Sequences, SequencesExt

LimiterConfig(limit, period) == [limit |-> limit, period |-> period]

TotalWeight(ws) == SumFunctionOnSet([i \in DOMAIN ws |-> ws[i].weight], DOMAIN ws)

\* The newest weights, up to the first that is age old.
UpTo(ws, age, now) ==
    LET pos == SelectInSeq(ws, LAMBDA x : now - x.time >= age)
    IN  IF pos = 0 THEN ws ELSE SubSeq(ws, 1, pos - 1)

\* Mutant: the period's first tick is not in the window.
CurrentWeight_Short(ws, period, now) ==
    TotalWeight(UpTo(ws, period - 1, now))

\* A weight is in the window while it is younger than the period.
CurrentWeight(ws, period, now) ==
    TotalWeight(UpTo(ws, period, now))

PutWeight(ws, weight, now) == <<[weight |-> weight, time |-> now]>> \o ws

\* Weights older than the period are forgotten, one of exactly that age is kept.
Purge(ws, period, now) == UpTo(ws, period + 1, now)

\* Mutant: a tick less than the oldest of the window needs.
WaitingPeriod_Short(ws, release, period, now) ==
    LET window == UpTo(ws, period, now)
    IN  IF window = <<>> THEN 0 ELSE Last(window).time - (now - period) - 1

(***************************************************************************)
(* How long to wait until a weight of release has left the window: the    *)
(* oldest weights of the window are counted until they are enough, and the *)
(* last of them leaves a period after it was put. With nothing to release  *)
(* the time is counted from now.                                          *)
(***************************************************************************)
WaitingPeriod(ws, release, period, now) ==
    LET window == UpTo(ws, period, now)
        oldest == Reverse(window)
        enough == {k \in 0 .. Len(oldest) : TotalWeight(SubSeq(oldest, 1, k)) >= release}
        count  == IF enough = {} THEN Len(oldest) ELSE Min(enough)
        last   == IF count = 0 THEN now ELSE oldest[count].time
    IN  last - (now - period)

CheckLimit(ws, config, weight, now) ==
    CurrentWeight(ws, config.period, now) + weight <= config.limit

Allowed(ws, configs, weight, now) ==
    \A config \in configs : CheckLimit(ws, config, weight, now)

\* What try_consume leaves: the weight is put, or the old weights are purged.
Consume(ws, configs, weight, now) ==
    CASE Allowed(ws, configs, weight, now) -> PutWeight(ws, weight, now)
      [] OTHER -> Purge(ws, Max({config.period : config \in configs}), now)

\* A weight reported by the exchange that is more than what was counted here.
Refit(ws, config, count, now) ==
    LET current == CurrentWeight(ws, config.period, now)
    IN  IF current < count THEN PutWeight(ws, count - current, now) ELSE ws

\* The longest wait of the configurations that refuse the weight now.
WaitFor(ws, configs, weight, now) ==
    Max({0} \cup {WaitingPeriod(ws, weight, config.period, now) :
                    config \in {c \in configs : ~CheckLimit(ws, c, weight, now)}})
================================================================================
