---------------------------- MODULE BedrockQuota ----------------------------
(***************************************************************************)
(* The guard in front of the language model (quota.py): a counter per      *)
(* client and calendar hour, and one per day for the whole program, both   *)
(* in Redis.  A call takes the one, then the other, each by an atomic      *)
(* INCR, and looks at what it returns; between the two Redis may fail, the *)
(* hour may end, and other calls may count.  Callers outside a request     *)
(* have no client and take the counter of the day alone.                   *)
(*                                                                         *)
(* Both caps are configured and the kill switch is off: with it on no call *)
(* gets as far as a counter.  Redis keeps its counters over an outage; the *)
(* last second of them, which it may lose in a crash, is left out.         *)
(***************************************************************************)
EXTENDS Integers, FiniteSets

CONSTANTS
    Client,         \* the addresses requests come from
    IpCap,          \* bedrock_per_ip_hourly_cap
    DayCap,         \* bedrock_daily_call_cap
    HoursPerDay,
    MaxHour,        \* the last hour looked at
    MaxCount        \* workers call no more once the day's counter is there

ASSUME QuotaAssumption ==
    /\ IpCap \in Nat \ {0} /\ DayCap \in Nat \ {0}
    /\ HoursPerDay \in Nat \ {0} /\ MaxHour \in Nat /\ MaxCount \in Nat

VARIABLES
    redis,          \* whether Redis answers
    hour,           \* hours since the start
    ipCount,        \* bedrock:ip:<client>:<hour>, of this hour
    dayCount,       \* bedrock:global:<day>, of this day
    admitted        \* history: what each counter let through

quotaVars == <<redis, hour, ipCount, dayCount, admitted>>

NoCalls == [c \in Client |-> 0]

QuotaInit ==
    /\ redis = "up" /\ hour = 0
    /\ ipCount = NoCalls /\ dayCount = 0
    /\ admitted = [ip |-> NoCalls, day |-> 0]

\* Mutant: a guard that cannot be asked lets the call through.
FailOpen(count, cap) == redis = "down" \/ count <= cap

\* Whether a call passes a counter that now is at count: it must be within the
\* cap, and Redis must have said so.
Passes(count, cap) == redis = "up" /\ count <= cap

\* What an INCR makes of a counter: when Redis fails, it may still have counted.
Incremented(count) == IF redis = "up" THEN {count + 1} ELSE {count, count + 1}

\* The counter of the client, which passes the call or refuses it.
TakeIp(c, passes) ==
    /\ \E n \in Incremented(ipCount[c]) :
          /\ ipCount' = [ipCount EXCEPT ![c] = n]
          /\ passes = Passes(n, IpCap)
    /\ admitted' = IF passes THEN [admitted EXCEPT !.ip[c] = @ + 1] ELSE admitted
    /\ UNCHANGED <<redis, hour, dayCount>>

\* The counter of the day.
TakeDay(passes) ==
    /\ \E n \in Incremented(dayCount) :
          /\ dayCount' = n
          /\ passes = Passes(n, DayCap)
    /\ admitted' = IF passes THEN [admitted EXCEPT !.day = @ + 1] ELSE admitted
    /\ UNCHANGED <<redis, hour, ipCount>>

\* A worker that drafts a template calls the model, for no client.
WorkerCalls == dayCount < MaxCount /\ \E passes \in BOOLEAN : TakeDay(passes)

RedisFails == redis = "up" /\ redis' = "down" /\ UNCHANGED <<hour, ipCount, dayCount, admitted>>

\* The next check builds a new connection.
RedisReturns == redis = "down" /\ redis' = "up" /\ UNCHANGED <<hour, ipCount, dayCount, admitted>>

\* A new hour, and at times a new day, have counters of their own.
HourPasses ==
    LET newDay == (hour + 1) % HoursPerDay = 0
    IN  /\ hour < MaxHour
        /\ hour' = hour + 1
        /\ ipCount' = NoCalls
        /\ dayCount' = IF newDay THEN 0 ELSE dayCount
        /\ admitted' = [ip |-> NoCalls, day |-> IF newDay THEN 0 ELSE admitted.day]
        /\ UNCHANGED redis

\* However calls interleave and Redis comes and goes, no client gets more calls
\* past its counter in an hour, nor the program in a day, than the caps allow.
CallsWithinCaps ==
    /\ \A c \in Client : admitted.ip[c] <= IpCap
    /\ admitted.day <= DayCap
=============================================================================
