-------------------------------- MODULE Relays --------------------------------
(***************************************************************************)
(* The relay inventory a DAITA start is validated against                   *)
(* (src/src/backend/wg/relay_inventory.rs): the service fetches Mullvad's    *)
(* list into a cache file, in tasks beside its command loop; the advanced    *)
(* page of the UI (features/daita_resources) asks what is cached when the    *)
(* window opens and downloads on request.  Job 0 is the check, the others    *)
(* are the downloads.  The list Mullvad serves is external; its content is   *)
(* what each published version says of each peer key.                       *)
(***************************************************************************)
EXTENDS Naturals, FiniteSets

CONSTANTS Keys,         \* public keys of peers
          MaxVersions,  \* lists Mullvad publishes one after the other
          MaxClicks,    \* presses of the download button
          RelayFaults   \* what may fail: {"stall", "write", "sync", "read", "dies"}

VARIABLES
  listing,     \* what each version says of each key
  published,   \* the version served now
  cacheFile,   \* mullvad-relays.json: None, the version in it, or Torn
  lock,        \* REFRESH_LOCK: the download that holds it, or NoJob
  jobs,        \* [at, got, answer, open, previous]: a call of the UI and its task
  resources,   \* [health, shown]: the diagnostic of the page
  validation,  \* [key, verdict, from]: the last DAITA start and the cache it read
  deaths       \* the service has died

vars == <<listing, published, cacheFile, lock, jobs, resources, validation, deaths>>

None == 0
Torn == MaxVersions + 1
NoJob == MaxClicks + 1
JobIds == 0..MaxClicks
Downloads == 1..MaxClicks
Versions == 1..MaxVersions
Marks == {"unlisted", "plain", "feature", "legacy"}
Error == MaxVersions + 2          \* an answer that is an error
Busy == {"Checking", "Refreshing"}

Idle == [at |-> "none", got |-> None, answer |-> None, open |-> FALSE, previous |-> None]

-----------------------------------------------------------------------------
(* From<RelayInventoryResponse>: a relay has DAITA by its feature or by the   *)
(* older mark of the relay itself.                                          *)
Inventory(v) ==
  [k \in {k \in Keys : listing[v][k] # "unlisted"} |-> listing[v][k] \in {"feature", "legacy"}]

\* the inventory of a cache that can be read: read_cached_inventory_file
Readable == cacheFile \notin {None, Torn}

\* RelayInventoryStatusSnapshot: shown is None when no cache is present
RelayCount(shown) == IF shown = None THEN 0 ELSE Cardinality(DOMAIN Inventory(shown))
DaitaCount(shown) ==
  IF shown = None THEN 0 ELSE Cardinality({k \in DOMAIN Inventory(shown) : Inventory(shown)[k]})

IsBusy == resources.health \in Busy

(* from_snapshot, error (what was shown before stays), refreshing            *)
Diagnostic(answer, previous) ==
  CASE answer = Error -> [health |-> "Error", shown |-> previous]
    [] answer = None  -> [health |-> "Missing", shown |-> None]
    [] OTHER          -> [health |-> "Ready", shown |-> answer]

Init ==
  /\ listing \in [Versions -> [Keys -> Marks]]
  /\ published = 1
  /\ cacheFile \in {None, 1}
  /\ lock = NoJob
  /\ jobs = [[j \in JobIds |-> Idle] EXCEPT ![0] = [Idle EXCEPT !.at = "asked", !.open = TRUE]]
  /\ resources = [health |-> "Checking", shown |-> None]
  /\ validation = [key |-> CHOOSE k \in Keys : TRUE, verdict |-> "none", from |-> None]
  /\ deaths = 0

-----------------------------------------------------------------------------
(* The UI.  The button is disabled while the page is busy.                   *)
ClickAnyTime(j) ==                         \* mutant: the button stays enabled
  /\ jobs[j].at = "none"
  /\ j > 1 => jobs[j - 1].at # "none"
  /\ jobs' = [jobs EXCEPT ![j] = [Idle EXCEPT !.at = "asked", !.open = TRUE,
                                              !.previous = resources.shown]]
  /\ resources' = [health |-> "Refreshing", shown |-> resources.shown]
  /\ UNCHANGED <<listing, published, cacheFile, lock, validation, deaths>>

Click(j) ==
  /\ ~IsBusy
  /\ jobs[j].at = "none"
  /\ j > 1 => jobs[j - 1].at # "none"
  /\ jobs' = [jobs EXCEPT ![j] = [Idle EXCEPT !.at = "asked", !.open = TRUE,
                                              !.previous = resources.shown]]
  /\ resources' = [health |-> "Refreshing", shown |-> resources.shown]
  /\ UNCHANGED <<listing, published, cacheFile, lock, validation, deaths>>

DeliverKept(j) ==                          \* mutant: an error leaves the page as it is
  /\ jobs[j].open /\ jobs[j].at = "replied"
  /\ jobs' = [jobs EXCEPT ![j].open = FALSE]
  /\ resources' = IF jobs[j].answer = Error THEN resources
                  ELSE Diagnostic(jobs[j].answer, jobs[j].previous)
  /\ UNCHANGED <<listing, published, cacheFile, lock, validation, deaths>>

\* the answer of the service arrives
Deliver(j) ==
  /\ jobs[j].open /\ jobs[j].at = "replied"
  /\ jobs' = [jobs EXCEPT ![j].open = FALSE]
  /\ resources' = Diagnostic(jobs[j].answer, jobs[j].previous)
  /\ UNCHANGED <<listing, published, cacheFile, lock, validation, deaths>>

(* The call ends without one: the service died, or it took longer than the   *)
(* client waits; a download goes on without its caller.                      *)
CallFails(j) ==
  /\ jobs[j].open /\ jobs[j].at # "replied"
  /\ jobs[j].at = "lost" \/ "stall" \in RelayFaults
  /\ jobs' = [jobs EXCEPT ![j].open = FALSE]
  /\ resources' = Diagnostic(Error, jobs[j].previous)
  /\ UNCHANGED <<listing, published, cacheFile, lock, validation, deaths>>

-----------------------------------------------------------------------------
(* The service: the command loop answers a check itself (status_snapshot)    *)
(* and spawns a task for a download (refresh_cache).                         *)
Reply(j, answer) == jobs' = [jobs EXCEPT ![j].at = "replied", ![j].answer = answer]

Status ==
  /\ jobs[0].at = "asked"
  /\ \/ Reply(0, IF cacheFile = Torn THEN Error ELSE cacheFile)
     \/ "read" \in RelayFaults /\ Reply(0, Error)
  /\ UNCHANGED <<listing, published, cacheFile, lock, resources, validation, deaths>>

Spawn(j) ==
  /\ j # 0 /\ jobs[j].at = "asked"
  /\ jobs' = [jobs EXCEPT ![j].at = "waiting"]
  /\ UNCHANGED <<listing, published, cacheFile, lock, resources, validation, deaths>>

FetchUnlocked(j) ==                        \* mutant: the lock is taken for the write only
  /\ jobs[j].at = "waiting"
  /\ jobs' = [jobs EXCEPT ![j].at = "fetching"]
  /\ UNCHANGED <<listing, published, cacheFile, lock, resources, validation, deaths>>

Lock(j) ==
  /\ jobs[j].at = "waiting" /\ lock = NoJob
  /\ lock' = j
  /\ jobs' = [jobs EXCEPT ![j].at = "fetching"]
  /\ UNCHANGED <<listing, published, cacheFile, resources, validation, deaths>>

\* fetch_remote_inventory got and parsed the list that is served now
Fetched(j) ==
  /\ jobs[j].at = "fetching"
  /\ jobs' = [jobs EXCEPT ![j].at = "writing", ![j].got = published]
  /\ UNCHANGED <<listing, published, cacheFile, lock, resources, validation, deaths>>

Release(j) == lock' = IF lock = j THEN NoJob ELSE lock

FetchFailsLocked(j) ==                     \* mutant: only a success releases the lock
  /\ jobs[j].at = "fetching"
  /\ Reply(j, Error)
  /\ UNCHANGED <<listing, published, cacheFile, lock, resources, validation, deaths>>

(* It did not: no connection, another status than 200, a body that is no     *)
(* list, or nothing within RELAY_INVENTORY_TIMEOUT.                          *)
FetchFails(j) ==
  /\ jobs[j].at = "fetching"
  /\ Reply(j, Error) /\ Release(j)
  /\ UNCHANGED <<listing, published, cacheFile, resources, validation, deaths>>

WriteTempInPlace(j) ==                     \* mutant: the cache itself is opened and written
  /\ jobs[j].at = "writing"
  /\ jobs' = [jobs EXCEPT ![j].at = "renaming"]
  /\ cacheFile' = Torn
  /\ UNCHANGED <<listing, published, lock, resources, validation, deaths>>

\* write_cached_inventory_file: a temporary file is written and then renamed
WriteTemp(j) ==
  /\ jobs[j].at = "writing"
  /\ \/ jobs' = [jobs EXCEPT ![j].at = "renaming"] /\ UNCHANGED lock
     \/ "write" \in RelayFaults /\ Reply(j, Error) /\ Release(j)
  /\ UNCHANGED <<listing, published, cacheFile, resources, validation, deaths>>

\* a failed sync of the directory is an error though the cache is replaced
Rename(j) ==
  /\ jobs[j].at = "renaming"
  /\ \/ cacheFile' = jobs[j].got /\ Reply(j, jobs[j].got)
     \/ "sync" \in RelayFaults /\ cacheFile' = jobs[j].got /\ Reply(j, Error)
     \/ "write" \in RelayFaults /\ UNCHANGED cacheFile /\ Reply(j, Error)
  /\ Release(j)
  /\ UNCHANGED <<listing, published, resources, validation, deaths>>

-----------------------------------------------------------------------------
(* validate_daita_config of a start: no fallback, whatever is missing.       *)
VerdictListed(key) ==                      \* mutant: being listed is enough
  IF cacheFile = None THEN "MissingCache"
  ELSE IF cacheFile = Torn THEN "CacheError"
  ELSE IF key \notin DOMAIN Inventory(cacheFile) THEN "Unlisted" ELSE "valid"

Verdict(key) ==
  IF cacheFile = None THEN "MissingCache"
  ELSE IF cacheFile = Torn THEN "CacheError"
  ELSE IF key \notin DOMAIN Inventory(cacheFile) THEN "Unlisted"
  ELSE IF ~Inventory(cacheFile)[key] THEN "NoDaita" ELSE "valid"

Validate(key) ==
  /\ validation' = [key |-> key, verdict |-> Verdict(key), from |-> cacheFile]
  /\ UNCHANGED <<listing, published, cacheFile, lock, jobs, resources, deaths>>

\* Mullvad publishes the next list
Publish ==
  /\ published < MaxVersions
  /\ published' = published + 1
  /\ UNCHANGED <<listing, cacheFile, lock, jobs, resources, validation, deaths>>

\* the service dies with its tasks and its lock, and is started again
ServiceDies ==
  /\ "dies" \in RelayFaults /\ deaths = 0
  /\ deaths' = 1
  /\ lock' = NoJob
  /\ jobs' = [j \in JobIds |-> IF jobs[j].at \in {"none", "replied"} THEN jobs[j]
                               ELSE [jobs[j] EXCEPT !.at = "lost"]]
  /\ UNCHANGED <<listing, published, cacheFile, resources, validation>>

Serve == Status \/ \E j \in Downloads : Spawn(j) \/ Lock(j) \/ FetchFails(j) \/ WriteTemp(j) \/ Rename(j)
EndCall == \E j \in JobIds : Deliver(j) \/ (jobs[j].at = "lost" /\ CallFails(j))

Next ==
  \/ \E j \in Downloads : Click(j) \/ Spawn(j) \/ Lock(j) \/ Fetched(j) \/ FetchFails(j)
                          \/ WriteTemp(j) \/ Rename(j)
  \/ \E j \in JobIds : Deliver(j) \/ CallFails(j)
  \/ \E k \in Keys : Validate(k)
  \/ Status \/ Publish \/ ServiceDies

Spec == Init /\ [][Next]_vars
FairSpec == Spec /\ WF_vars(Serve) /\ WF_vars(EndCall)

-----------------------------------------------------------------------------
TypeOK ==
  /\ listing \in [Versions -> [Keys -> Marks]]
  /\ published \in Versions
  /\ cacheFile \in 0..Torn
  /\ lock \in 1..NoJob
  /\ jobs \in [JobIds -> [at : {"none", "asked", "waiting", "fetching", "writing", "renaming",
                                "replied", "lost"},
                          got : 0..MaxVersions, answer : (0..MaxVersions) \cup {Error},
                          open : BOOLEAN, previous : 0..MaxVersions]]
  /\ resources \in [health : Busy \cup {"Ready", "Missing", "Error"}, shown : 0..MaxVersions]
  /\ validation \in [key : Keys, from : 0..Torn,
                     verdict : {"none", "MissingCache", "CacheError", "Unlisted", "NoDaita", "valid"}]
  /\ deaths \in 0..1

(* What a start and the page rely on: the cache is absent or one whole        *)
(* published list, also after the service died in the middle of a write; a    *)
(* start that passed found DAITA announced for its peer in a published list;  *)
(* and a page that says Ready shows a list that is or was in the cache, with  *)
(* no more DAITA relays than relays (relay_inventory.rs, ephemeral.rs         *)
(* validate_daita_config, DaitaResourcesDiagnostic).                          *)
CacheServesStarts ==
  /\ cacheFile \in 0..published
  /\ validation.verdict = "valid" =>
       /\ validation.from \in 1..published
       /\ listing[validation.from][validation.key] \in {"feature", "legacy"}
  /\ resources.shown <= cacheFile
  /\ resources.health = "Ready" => resources.shown # None
  /\ DaitaCount(resources.shown) <= RelayCount(resources.shown)

(* Neither the cache nor the page ever goes back to an older list: a download *)
(* whose caller gave up and the next one cannot write out of order            *)
(* (REFRESH_LOCK), and no late answer replaces a newer one.                   *)
NeverOlder ==
  cacheFile' >= cacheFile /\ resources'.shown >= resources.shown

(* The page does not stay busy: every check and every download ends, whatever *)
(* the network does (RELAY_INVENTORY_TIMEOUT) and also without a time limit   *)
(* in the client: IsBusy ~> ~IsBusy.                                         *)
===============================================================================
