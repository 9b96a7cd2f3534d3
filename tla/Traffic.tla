-------------------------------- MODULE Traffic --------------------------------
(***************************************************************************)
(* The traffic history (src/src/ui/state/traffic.rs): what the samples of a  *)
(* running tunnel add to buckets by day and by hour, for all tunnels and for *)
(* each config, how the buckets are pruned, saved and restored, and what the *)
(* overview computes from them (overview/traffic_analytics.rs).              *)
(*                                                                         *)
(* Received and sent bytes go the same way and are one number here.  The     *)
(* queue that writes the state file is in Library: a save is one step.       *)
(***************************************************************************)
EXTENDS Integers, Sequences, FiniteSets, FiniteSetsExt, Functions

CONSTANTS Configs,       \* ids of configs
          LastHour,      \* the clock stops at this hour
          HoursOfDay,    \* 24, smaller
          Month,         \* the days of a period, 30, smaller
          KeptDays,      \* TRAFFIC_ROLLING_DAYS, smaller
          KeptHours,     \* TRAFFIC_HOURLY_HISTORY, smaller
          TrendDays,     \* TRAFFIC_TREND_DAYS, smaller
          MaxRanked,     \* MAX_RANK_ITEMS, smaller
          MaxBytes       \* bytes a behaviour moves

VARIABLES
  hour,        \* the clock
  live,        \* configs of the library
  tunnel,      \* the running config, or "none"
  counter,     \* bytes its peers report
  last,        \* last_rx_bytes, -1 before the first sample
  store,       \* TrafficStore
  saved,       \* the buckets in the state file, with the configs listed there
  age,         \* since last_persist_at: "never", "recent" or "minute"
  moved,       \* bytes moved so far
  fresh,       \* bytes moved since the last sample
  truth        \* what was moved between samples: [all, of] by hour, all and by config

vars == <<hour, live, tunnel, counter, last, store, saved, age, moved, fresh, truth>>
clock == <<hour, moved>>

NoBuckets == [key \in {} |-> 0]
NoStore == [days |-> NoBuckets, hours |-> NoBuckets,
            configDays |-> [c \in Configs |-> NoBuckets],
            configHours |-> [c \in Configs |-> NoBuckets]]
Nothing == [all |-> [h \in 0 .. LastHour |-> 0],
            of |-> [c \in Configs |-> [h \in 0 .. LastHour |-> 0]]]

(* What a save puts into the state file.                                     *)
Snapshot(s, configs, t) == [store |-> s, live |-> configs, truth |-> t]

Init ==
  /\ hour = 0 /\ moved = 0 /\ live = Configs
  /\ tunnel = "none" /\ counter = 0 /\ last = -1 /\ fresh = 0
  /\ store = NoStore /\ age = "never" /\ truth = Nothing
  /\ saved = Snapshot(NoStore, Configs, Nothing)

-----------------------------------------------------------------------------
(* Buckets: the ones with the latest keys are kept.                          *)
Day(h) == h \div HoursOfDay

PruneOldest(buckets, kept) ==              \* mutant: the latest are dropped
  LET Earlier(k) == {j \in DOMAIN buckets : j < k}
  IN Restrict(buckets, {k \in DOMAIN buckets : Cardinality(Earlier(k)) < kept})

PruneOneMore(buckets, kept) ==             \* mutant: one too many is dropped
  LET Later(k) == {j \in DOMAIN buckets : j >= k}
  IN Restrict(buckets, {k \in DOMAIN buckets : Cardinality(Later(k)) < kept})

PruneOneLess(buckets, kept) ==             \* mutant: one too many is kept
  LET Later(k) == {j \in DOMAIN buckets : j > k}
  IN Restrict(buckets, {k \in DOMAIN buckets : Cardinality(Later(k)) <= kept})

Prune(buckets, kept) ==
  LET Later(k) == {j \in DOMAIN buckets : j > k}
  IN Restrict(buckets, {k \in DOMAIN buckets : Cardinality(Later(k)) < kept})

UpdateDays(days, key, n) ==
  IF key \in DOMAIN days THEN [days EXCEPT ![key] = @ + n]
  ELSE Prune([k \in DOMAIN days \cup {key} |-> IF k = key THEN n ELSE days[k]], KeptDays)

UpdateHours(hours, key, n) ==
  IF key \in DOMAIN hours THEN [hours EXCEPT ![key] = @ + n]
  ELSE Prune([k \in DOMAIN hours \cup {key} |-> IF k = key THEN n ELSE hours[k]], KeptHours)

(* TrafficStore::record, for the running config.                             *)
Record(s, c, n) ==
  IF n = 0 THEN s
  ELSE [days |-> UpdateDays(s.days, Day(hour), n),
        hours |-> UpdateHours(s.hours, hour, n),
        configDays |-> [s.configDays EXCEPT ![c] = UpdateDays(@, Day(hour), n)],
        configHours |-> [s.configHours EXCEPT ![c] = UpdateHours(@, hour, n)]]

Created(s, c) ==
  \/ Day(hour) \notin DOMAIN s.days \/ Day(hour) \notin DOMAIN s.configDays[c]
  \/ hour \notin DOMAIN s.hours \/ hour \notin DOMAIN s.configHours[c]

(* record_traffic: a sample that adds traffic is saved when it opens a       *)
(* bucket, and otherwise a minute after the last save.                       *)
PersistDue(n) == n > 0 /\ (Created(store, tunnel) \/ age # "recent")

-----------------------------------------------------------------------------
(* The tunnel moves bytes, or the clock does.                                *)
Move ==
  /\ tunnel # "none" /\ moved < MaxBytes
  /\ moved' = moved + 1 /\ counter' = counter + 1 /\ fresh' = fresh + 1
  /\ UNCHANGED <<hour, live, tunnel, last, store, saved, age, truth>>

Tick ==
  /\ \/ hour < LastHour /\ hour' = hour + 1
     \/ UNCHANGED hour
  /\ age' = IF age = "recent" THEN "minute" ELSE age
  /\ UNCHANGED <<live, tunnel, counter, last, store, saved, moved, fresh, truth>>

(* reset_for_start and clear_runtime_metrics: what was moved since the last   *)
(* sample is not counted.                                                    *)
Start ==
  /\ tunnel = "none" /\ \E c \in live : tunnel' = c
  /\ counter' = 0 /\ last' = -1 /\ fresh' = 0
  /\ UNCHANGED <<clock, live, store, saved, age, truth>>

Stop ==
  /\ tunnel # "none" /\ tunnel' = "none"
  /\ counter' = 0 /\ last' = -1 /\ fresh' = 0
  /\ UNCHANGED <<clock, live, store, saved, age, truth>>

DeltaFromStart ==                          \* mutant: the whole counter each time
  IF last = -1 THEN 0 ELSE counter

Delta == IF last = -1 \/ counter < last THEN 0 ELSE counter - last

(* apply_stats: the growth since the last sample; the first one of a tunnel   *)
(* only notes where the counters are.                                       *)
Sample ==
  /\ tunnel # "none"
  /\ last' = counter /\ fresh' = 0
  /\ store' = Record(store, tunnel, Delta)
  /\ truth' = IF last = -1 THEN truth
              ELSE [truth EXCEPT !.all[hour] = @ + fresh, !.of[tunnel][hour] = @ + fresh]
  /\ IF PersistDue(Delta)
     THEN age' = "recent" /\ saved' = Snapshot(store', live, truth')
     ELSE UNCHANGED <<age, saved>>
  /\ UNCHANGED <<clock, live, tunnel, counter>>

(* A config that does not run is deleted, its buckets with it.               *)
RemoveDaysOnly(c) == [store EXCEPT !.configDays[c] = NoBuckets]  \* mutant

RemoveConfig(c) == [store EXCEPT !.configDays[c] = NoBuckets, !.configHours[c] = NoBuckets]

Delete ==
  /\ \E c \in live \ {tunnel} :
       /\ live' = live \ {c}
       /\ store' = RemoveConfig(c)
       /\ truth' = [truth EXCEPT !.of[c] = Nothing.of[c]]
  /\ saved' = Snapshot(store', live', truth')
  /\ UNCHANGED <<clock, tunnel, counter, last, age, fresh>>

(* restore_traffic_store: buckets of configs that are not listed, or whose   *)
(* file is gone, are dropped, and every list is pruned again.                *)
Restored(s, configs) ==
  [days |-> Prune(s.days, KeptDays), hours |-> Prune(s.hours, KeptHours),
   configDays |-> [c \in Configs |->
     IF c \in configs THEN Prune(s.configDays[c], KeptDays) ELSE NoBuckets],
   configHours |-> [c \in Configs |->
     IF c \in configs THEN Prune(s.configHours[c], KeptHours) ELSE NoBuckets]]

(* The program ends, with or without a crash, and starts again from the file; *)
(* another program may have removed files of configs.                        *)
Restart ==
  /\ \E gone \in SUBSET saved.live :
       /\ Cardinality(gone) <= 1
       /\ live' = saved.live \ gone
       /\ truth' = [saved.truth EXCEPT !.of =
                      [c \in Configs |-> IF c \in live' THEN @[c] ELSE Nothing.of[c]]]
  /\ store' = Restored(saved.store, live')
  /\ tunnel' = "none" /\ counter' = 0 /\ last' = -1 /\ fresh' = 0 /\ age' = "never"
  /\ UNCHANGED <<clock, saved>>

Next == Move \/ Tick \/ Start \/ Stop \/ Sample \/ Delete \/ Restart

Spec == Init /\ [][Next]_vars

-----------------------------------------------------------------------------
(* The overview.                                                            *)
SumOf(f, keys) == SumFunctionOnSet(f, keys \cap DOMAIN f)

DayKeySet(startOffset, days) == {d \in 0 .. Day(LastHour) :
                                   /\ Day(hour) >= d + startOffset
                                   /\ Day(hour) < d + startOffset + days}

Today == {h \in 0 .. LastHour : h <= hour /\ h + HoursOfDay > hour}

Periods == {"Today", "ThisMonth", "LastMonth"}

Window(period) == CASE period = "Today"     -> Today
                    [] period = "ThisMonth" -> DayKeySet(0, Month)
                    [] period = "LastMonth" -> DayKeySet(Month, Month)

Total(period) == SumOf(IF period = "Today" THEN store.hours ELSE store.days, Window(period))

TotalOf(period, c) ==
  SumOf(IF period = "Today" THEN store.configHours[c] ELSE store.configDays[c], Window(period))

(* overview_traffic_summary_at: the configs with traffic, the most first, and *)
(* the sum of those that do not make the list.                              *)
Active(period) == {c \in live : TotalOf(period, c) > 0}

Ranked(period, list) ==
  /\ list \subseteq Active(period)
  /\ Cardinality(list) = Min({MaxRanked, Cardinality(Active(period))})
  /\ \A c \in list, d \in Active(period) \ list : TotalOf(period, c) >= TotalOf(period, d)

Others(period, list) ==
  SumFunctionOnSet([c \in Active(period) |-> TotalOf(period, c)], Active(period) \ list)

Trend(d) == IF d \in DOMAIN store.days THEN store.days[d] ELSE 0

-----------------------------------------------------------------------------
TypeOK ==
  /\ hour \in 0 .. LastHour /\ moved \in 0 .. MaxBytes /\ fresh \in 0 .. MaxBytes
  /\ live \subseteq Configs /\ tunnel \in live \cup {"none"}
  /\ counter \in 0 .. MaxBytes /\ last \in -1 .. MaxBytes
  /\ age \in {"never", "recent", "minute"}
  /\ Cardinality(DOMAIN store.days) <= KeptDays
  /\ Cardinality(DOMAIN store.hours) <= KeptHours

HoursIn(period) ==
  IF period = "Today" THEN Window(period) ELSE {h \in 0 .. LastHour : Day(h) \in Window(period)}

(* What the overview shows of a period is what the samples saw in it: for    *)
(* all tunnels, for each config, and for each day of the trend, whatever was  *)
(* pruned, deleted, saved and restored in between; and what it shows of a     *)
(* config that is gone is nothing.                                          *)
SummaryExact ==
  /\ \A p \in Periods :
       /\ Total(p) = SumOf(truth.all, HoursIn(p))
       /\ \A c \in Configs : TotalOf(p, c) = SumOf(truth.of[c], HoursIn(p))
  /\ \A d \in DayKeySet(0, TrendDays) :
       Trend(d) = SumOf(truth.all, {h \in 0 .. LastHour : Day(h) = d})

(* The list and the rest add up to the traffic of the configs, which never    *)
(* exceeds the total.                                                       *)
SharesAddUp ==
  \A p \in Periods : LET Of == [c \in live |-> TotalOf(p, c)] IN
    \A list \in SUBSET Active(p) : Ranked(p, list) =>
      /\ SumFunctionOnSet(Of, list) + Others(p, list) = SumFunction(Of)
      /\ SumFunction(Of) <= Total(p)

(* Both, for what the overview shows.                                        *)
OverviewExact == SummaryExact /\ SharesAddUp
=============================================================================
