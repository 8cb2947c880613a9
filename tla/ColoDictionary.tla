--------------------------- MODULE ColoDictionary ---------------------------
(***************************************************************************)
(* The COLO dictionary on disk and those who use it: colo.update, which    *)
(* downloads three sources at once, each from the fastest of its mirrors,  *)
(* and stores what came; colo.process, which derives the dictionary and    *)
(* its two halves, one file after the other; the filter of a source, which *)
(* chooses a file, resolves the words of the user and loads rows; and the  *)
(* trace workers, which share a cached dictionary (internal/colodict,      *)
(* task/head.go).                                                          *)
(*                                                                         *)
(* Nothing locks the files: every read and every atomic replacement is a   *)
(* step.  A second colo.process at the same time is left out: the three    *)
(* files may then come from two of them.                                   *)
(***************************************************************************)
EXTENDS ColoRows

CONSTANTS
    Feeds,       \* what the GEOFEED source may serve: sequences of lines
    Places,      \* what the locations source may serve
    Names,       \* what the country source may serve: names to codes
    Broken,      \* a content that cannot be parsed
    Empty,       \* an answer without a byte
    Absent,      \* no such file
    TokenSets,   \* the tokens of a source
    WordSets,    \* the words of its filter, countries or codes
    Workers,     \* trace workers
    Mirrors,     \* candidates of a URL
    Recheck,     \* coloDictionaryRecheckInterval
    Budgets      \* bound: how often each may begin and a write may fail, how
                 \* far the clock goes

BoundsAssumption ==
    /\ {Mirrors, Recheck} \subseteq Nat \ {0}
    /\ Budgets \subseteq [{"update", "process", "read", "lookup", "time", "fault"} -> Nat]

Sources == {"geofeed", "locations", "country"}
Files == {"all", "v4", "v6"}

VARIABLES
    clock,
    raw,       \* the downloaded files
    dict,      \* the derived files
    update,    \* colo.update
    process,   \* colo.process
    reader,    \* the filter of one source
    cache,     \* Engine.coloCache
    worker,    \* the trace workers
    runs,      \* how often each of them may still begin or fail
    calm,      \* history variable: the reader met no change
    version,   \* history variable: how often dict["all"] was replaced
    replaced   \* history variable: when each version of it was replaced

vars == <<clock, raw, dict, update, process, reader, cache, worker, runs,
          calm, version, replaced>>

NoFetch == [left |-> 0, got |-> Absent]
NoUpdate == [pc |-> "idle", fetch |-> [s \in Sources |-> NoFetch], taken |-> {}, failed |-> {}]
NoProcess == [pc |-> "idle", feed |-> <<>>, places |-> Absent, rows |-> <<>>, unmatched |-> 0]
NoReader == [pc |-> "idle", tokens |-> {}, words |-> {}, mode |-> "allow", colos |-> {},
             path |-> "all", kept |-> <<>>, out |-> {}]
NoCache == [rows |-> Absent, of |-> 0, stamp |-> 0, checked |-> 0]
NoWork == [pc |-> "idle", now |-> 0, stamp |-> 0, rows |-> <<>>, of |-> 0]

TypeOK ==
    /\ clock \in Nat
    /\ raw["geofeed"] \in Feeds \cup {Absent, Broken, <<>>}
    /\ raw["locations"] \in Places \cup {Absent, Broken, Empty}
    /\ raw["country"] \in Names \cup {Absent, Broken, Empty}
    /\ update.pc \in {"idle", "fetch", "geofeed", "locations", "country", "status"}
    /\ \A s \in Sources : update.fetch[s].left \in 0..Mirrors
    /\ process.pc \in {"idle", "locations", "country", "all", "v4", "v6", "status", "ended"}
    /\ process.unmatched \in 0..Len(process.feed)
    /\ reader.pc \in {"idle", "path", "resolve", "load", "filtered",
                      "unfiltered", "nothing", "error"}
    /\ \A w \in Workers : worker[w].pc \in {"idle", "stat", "compare", "load", "store", "hit"}
    /\ cache.stamp <= version /\ cache.of <= version

Init ==
    /\ clock = 0
    /\ raw \in {[s \in Sources |-> Absent]}
               \cup {[geofeed |-> f, locations |-> p, country |-> n] :
                        f \in Feeds, p \in Places, n \in Names}
    /\ dict = [p \in Files |-> Absent]
    /\ update = NoUpdate /\ process = NoProcess /\ reader = NoReader
    /\ cache = NoCache
    /\ worker = [w \in Workers |-> NoWork]
    /\ runs \in Budgets
    /\ calm = TRUE /\ version = 0 /\ replaced = <<>>

Begun(who) == runs[who] > 0 /\ runs' = [runs EXCEPT ![who] = @ - 1]

Tick ==
    /\ Begun("time")
    /\ clock' = clock + 1
    /\ UNCHANGED <<raw, dict, update, process, reader, cache, worker,
                   calm, version, replaced>>

-----------------------------------------------------------------------------
(* colo.update.                                                            *)
updateOnly == <<clock, dict, process, reader, cache, worker, calm, version, replaced>>

UpdateBegin ==
    /\ update.pc = "idle" /\ Begun("update")
    /\ update' = [NoUpdate EXCEPT !.pc = "fetch",
                     !.fetch = [s \in Sources |-> [left |-> Mirrors, got |-> Absent]]]
    /\ UNCHANGED <<updateOnly, raw>>

\* An answer without a byte is a GEOFEED without lines.
Served(s) ==
    CASE s = "geofeed" -> Feeds \cup {Broken, <<>>}
      [] s = "locations" -> Places \cup {Broken, Empty}
      [] s = "country" -> Names \cup {Broken, Empty}

\* fetchURL: the first mirror that answers ends the race of a source.
Answered(s) ==
    /\ update.pc = "fetch" /\ update.fetch[s].left > 0 /\ update.fetch[s].got = Absent
    /\ \E c \in Served(s) : update' = [update EXCEPT !.fetch[s].got = c]
    /\ UNCHANGED <<updateOnly, raw, runs>>

\* A mirror that fails leaves the race to the others.
MirrorFails(s) ==
    /\ update.pc = "fetch" /\ update.fetch[s].left > 0 /\ update.fetch[s].got = Absent
    /\ update' = [update EXCEPT !.fetch[s].left = @ - 1]
    /\ UNCHANGED <<updateOnly, raw, runs>>

Ready(s) == s \notin update.taken /\ (update.fetch[s].left = 0 \/ update.fetch[s].got # Absent)

\* fetchUpdateSources takes the results as they come; without a GEOFEED the
\* update is over at once, and what the others bring is dropped.
Take(s) ==
    LET failed == update.fetch[s].got = Absent
    IN  /\ update.pc = "fetch" /\ Ready(s)
        /\ update' =
             IF failed /\ s = "geofeed" THEN NoUpdate
             ELSE [update EXCEPT !.taken = @ \cup {s},
                      !.failed = IF failed THEN @ \cup {s} ELSE @,
                      !.pc = IF update.taken \cup {s} = Sources THEN "geofeed" ELSE "fetch"]
        /\ UNCHANGED <<updateOnly, raw, runs>>

Following == [geofeed |-> "locations", locations |-> "country", country |-> "status"]

\* Mutant: whatever was downloaded is stored.
StoreAny(s) ==
    /\ update.pc = s
    /\ raw' = [raw EXCEPT ![s] = update.fetch[s].got]
    /\ update' = [update EXCEPT !.pc = Following[s]]
    /\ UNCHANGED <<updateOnly, runs>>

\* A GEOFEED is stored if it parses, the others if they brought a byte.
Store(s) ==
    LET got == update.fetch[s].got
    IN  /\ update.pc = s
        /\ IF s = "geofeed" /\ got = Broken
           THEN update' = NoUpdate
           ELSE update' = [update EXCEPT !.pc = Following[s]]
        /\ raw' = IF got \in {Absent, Empty} \/ (s = "geofeed" /\ got = Broken) THEN raw
                  ELSE [raw EXCEPT ![s] = got]
        /\ UNCHANGED <<updateOnly, runs>>

\* A file that cannot be written ends the update with an error.
StoreFails ==
    /\ update.pc \in Sources /\ Begun("fault")
    /\ update' = NoUpdate
    /\ UNCHANGED <<updateOnly, raw>>

\* The answer warns of every source that failed or brought nothing.
UpdateEnd ==
    /\ update.pc = "status"
    /\ update' = NoUpdate
    /\ UNCHANGED <<updateOnly, raw, runs>>

-----------------------------------------------------------------------------
(* colo.process.                                                           *)
processOnly == <<clock, raw, update, reader, cache, worker>>
quiet == <<dict, calm, version, replaced>>

ProcessBegin ==
    /\ process.pc \in {"idle", "ended"} /\ Begun("process")
    /\ process' = IF raw["geofeed"] = Absent THEN NoProcess
                  ELSE [NoProcess EXCEPT !.pc = "locations", !.feed = Entries(raw["geofeed"])]
    /\ UNCHANGED <<processOnly, quiet>>

ReadLocations ==
    /\ process.pc = "locations"
    /\ process' = [process EXCEPT !.pc = "country", !.places = raw["locations"]]
    /\ UNCHANGED <<processOnly, quiet, runs>>

\* buildColoEntriesFromLocalSources: both files, or the built-in table alone.
Mapping(places, names) ==
    IF places \in {Absent, Broken, {}} \/ names \in {Absent, Broken} THEN NoLookup
    ELSE [places |-> places, names |-> names]

\* Mutant: a dictionary without rows is written like any other.
ReadCountryAny ==
    LET lookup == Mapping(process.places, raw["country"])
    IN  /\ process.pc = "country"
        /\ process' = [process EXCEPT !.pc = "all", !.rows = Rows(process.feed, lookup),
                                      !.unmatched = Unmatched(process.feed, lookup)]
        /\ UNCHANGED <<processOnly, quiet, runs>>

\* Without a row nothing is written.
ReadCountry ==
    LET lookup == Mapping(process.places, raw["country"])
        rows == Rows(process.feed, lookup)
    IN  /\ process.pc = "country"
        /\ process' = IF rows = <<>> THEN NoProcess
                      ELSE [process EXCEPT !.pc = "all", !.rows = rows,
                                           !.unmatched = Unmatched(process.feed, lookup)]
        /\ UNCHANGED <<processOnly, quiet, runs>>

Then == [all |-> "v4", v4 |-> "v6", v6 |-> "status"]
RowsOf(rows, p) == IF p = "all" THEN rows ELSE OfFamily(rows, p = "v4")

\* writeFileAtomic: one file after the other.
WriteRows(p) ==
    /\ process.pc = p
    /\ dict' = [dict EXCEPT ![p] = RowsOf(process.rows, p)]
    /\ process' = [process EXCEPT !.pc = Then[p]]
    /\ IF p = "all"
       THEN /\ version' = version + 1
            /\ replaced' = Append(replaced, clock)
       ELSE UNCHANGED <<version, replaced>>
    /\ calm' = FALSE
    /\ UNCHANGED <<processOnly, runs>>

\* Mutant: a file that cannot be written is passed over.
WriteFailsOn ==
    /\ process.pc \in Files /\ Begun("fault")
    /\ process' = [process EXCEPT !.pc = Then[@]]
    /\ UNCHANGED <<processOnly, quiet>>

\* A file that cannot be written ends it with an error, whatever was written.
WriteFails ==
    /\ process.pc \in Files /\ Begun("fault")
    /\ process' = NoProcess
    /\ UNCHANGED <<processOnly, quiet>>

ProcessEnd ==
    /\ process.pc = "status"
    /\ process' = [process EXCEPT !.pc = "ended"]
    /\ UNCHANGED <<processOnly, quiet, runs>>

-----------------------------------------------------------------------------
(* The filter of one source (NewModeFilterForTokens), whose words have     *)
(* been resolved once by the caller (source_build.go).                     *)
readerOnly == <<clock, raw, dict, update, process, cache, worker, version, replaced>>

\* The three files are the rows of one process.
Whole == /\ dict["all"] # Absent
         /\ \A p \in Files : dict[p] = RowsOf(dict["all"], p)

HasCountry(words) == words \cap Codes # {}
Rowset(p) == IF dict[p] = Absent THEN <<>> ELSE dict[p]

ReadBegin ==
    /\ reader.pc = "idle" /\ Begun("read")
    /\ \E tokens \in TokenSets, words \in WordSets, mode \in {"allow", "deny"} :
         reader' = [NoReader EXCEPT !.tokens = tokens, !.words = words, !.mode = mode,
             !.pc = IF HasCountry(words) /\ dict["all"] = Absent THEN "error"
                    ELSE IF mode = "allow" /\ ResolvedColos(words, Rowset("all")) = {}
                         THEN "nothing"
                    ELSE "path"]
    /\ calm' = Whole
    /\ UNCHANGED <<readerOnly>>

ChoosePath ==
    /\ reader.pc = "path"
    /\ reader' = [reader EXCEPT !.pc = "resolve",
          !.path = IF dict[PathFor(reader.tokens)] = Absent THEN "all" ELSE PathFor(reader.tokens)]
    /\ UNCHANGED <<readerOnly, runs, calm>>

Resolve ==
    LET colos == ResolvedColos(reader.words, Rowset("all"))
    IN  /\ reader.pc = "resolve"
        /\ reader' = [reader EXCEPT !.colos = colos,
                         !.pc = IF colos = {} THEN "unfiltered" ELSE "load"]
        /\ UNCHANGED <<readerOnly, runs, calm>>

\* NewModeFilterForColos, then FilterToken on every token.
Load ==
    LET kept == SelectSeq(Rowset(reader.path), LAMBDA r : r.colo \in reader.colos)
    IN  /\ reader.pc = "load"
        /\ reader' =
             IF dict[reader.path] = Absent \/ (kept = <<>> /\ reader.mode = "allow")
             THEN [reader EXCEPT !.pc = "error"]
             ELSE [reader EXCEPT !.pc = "filtered", !.kept = kept,
                      !.out = UNION {FilterToken(t, kept, reader.mode) : t \in reader.tokens}]
        /\ UNCHANGED <<readerOnly, runs, calm>>

-----------------------------------------------------------------------------
(* The dictionary of the trace workers (cachedColoDictionaryLookup).       *)
workerOnly == <<clock, raw, dict, update, process, reader, calm, version, replaced>>

Fresh(now) == cache.rows # Absent /\ now - cache.checked < Recheck
Hit(w, rows, of) ==
    worker' = [worker EXCEPT ![w] = [@ EXCEPT !.pc = "hit", !.rows = rows, !.of = of]]

LookupBegin(w) ==
    /\ worker[w].pc \in {"idle", "hit"} /\ Begun("lookup")
    /\ IF Fresh(clock)
       THEN worker' = [worker EXCEPT ![w] = [NoWork EXCEPT !.pc = "hit", !.now = clock,
                                                !.rows = cache.rows, !.of = cache.of]]
       ELSE worker' = [worker EXCEPT ![w] = [NoWork EXCEPT !.pc = "stat", !.now = clock]]
    /\ UNCHANGED <<workerOnly, cache>>

\* os.Stat: the size and the time tell one version from the other.
Stat(w) ==
    /\ worker[w].pc = "stat"
    /\ worker' = [worker EXCEPT ![w] =
                    IF dict["all"] = Absent THEN NoWork
                    ELSE [@ EXCEPT !.pc = "compare", !.stamp = version]]
    /\ UNCHANGED <<workerOnly, runs, cache>>

Compare(w) ==
    /\ worker[w].pc = "compare"
    /\ IF cache.rows # Absent /\ cache.stamp = worker[w].stamp
       THEN /\ cache' = [cache EXCEPT !.checked = worker[w].now]
            /\ Hit(w, cache.rows, cache.of)
       ELSE /\ worker' = [worker EXCEPT ![w].pc = "load"]
            /\ UNCHANGED cache
    /\ UNCHANGED <<workerOnly, runs>>

LoadRows(w) ==
    /\ worker[w].pc = "load"
    /\ worker' = [worker EXCEPT ![w] = [@ EXCEPT !.pc = "store", !.rows = dict["all"],
                                                 !.of = version]]
    /\ UNCHANGED <<workerOnly, runs, cache>>

\* Mutant: the rows are stored with the version the file has by then.
KeepRowsRestat(w) ==
    /\ worker[w].pc = "store"
    /\ cache' = [rows |-> worker[w].rows, of |-> worker[w].of, stamp |-> version,
                 checked |-> worker[w].now]
    /\ Hit(w, worker[w].rows, worker[w].of)
    /\ UNCHANGED <<workerOnly, runs>>

\* The rows are as old as the call: they keep its stamp and its time.
KeepRows(w) ==
    /\ worker[w].pc = "store"
    /\ cache' = [rows |-> worker[w].rows, of |-> worker[w].of, stamp |-> worker[w].stamp,
                 checked |-> worker[w].now]
    /\ Hit(w, worker[w].rows, worker[w].of)
    /\ UNCHANGED <<workerOnly, runs>>

Next ==
    \/ Tick
    \/ UpdateBegin \/ StoreFails \/ UpdateEnd
    \/ \E s \in Sources : Answered(s) \/ MirrorFails(s) \/ Take(s) \/ Store(s)
    \/ ProcessBegin \/ ReadLocations \/ ReadCountry \/ WriteFails \/ ProcessEnd
    \/ \E p \in Files : WriteRows(p)
    \/ ReadBegin \/ ChoosePath \/ Resolve \/ Load
    \/ \E w \in Workers :
         LookupBegin(w) \/ Stat(w) \/ Compare(w) \/ LoadRows(w) \/ KeepRows(w)

Spec == Init /\ [][Next]_vars

-----------------------------------------------------------------------------
(* Properties.                                                             *)

\* A file gives way only to what its source sent, and only in an update whose
\* GEOFEED parses (dictionary.go:204-228, 328-349).
KeepsLastFiles ==
    [][\A s \in Sources : raw'[s] # raw[s] =>
          /\ raw'[s] \notin {Absent, Empty}
          /\ update.fetch["geofeed"].got \in Feeds \cup {<<>>}]_vars

\* colo.process that answers well leaves the three files of one run
\* (dictionary.go:259-268).
ThreeOfOneRun == process.pc = "ended" => Whole /\ dict["all"] = process.rows

\* A dictionary that had rows never loses them all (dictionary.go:255-258).
RowsStay == [][dict["all"] # Absent => dict'["all"] \notin {Absent, <<>>}]_vars

\* Every row has a reason: the table or the locations name its code for the
\* country and the city of an entry, and a city alone decides only when it is
\* the only one of that name (dictionary.go:1165-1251).
Reason(row, entry, lookup) ==
    LET country == CountryOf(entry, lookup)
        cities == {entry.city} \cup UNION {Range(Aliases[k]) : k \in {j \in DOMAIN Aliases :
                      j[3] = entry.city /\ j[1] \in {country, ""} /\ j[2] \in {entry.region, ""}}}
        homes(c) == {p.country : p \in {q \in lookup.places : q.city = c}}
    IN  \/ \E k \in DOMAIN StaticMap :
              k[1] \in {country, ""} /\ k[3] \in cities /\ row.colo \in StaticMap[k]
        \/ /\ lookup # NoLookup
           /\ \E p \in lookup.places :
                 /\ p.colo = row.colo /\ p.city \in cities
                 /\ p.country = country \/ homes(p.city) = {p.country}
RowsHaveReasons ==
    process.pc = "all" =>
       \A i \in DOMAIN process.rows : \E j \in DOMAIN process.feed :
          /\ process.feed[j].prefix = process.rows[i].prefix
          /\ \E n \in Names : Reason(process.rows[i], process.feed[j],
                                     Mapping(process.places, n))

\* The counts of colo.process are those colo.status finds afterwards, if no
\* prefix comes twice (dictionary.go:275-279, 1330-1342).
CountsAgree ==
    process.pc = "status"
    /\ (\A i, j \in DOMAIN process.feed :
          process.feed[i].prefix = process.feed[j].prefix => i = j)
    => MatchedRows(process.feed, process.rows) = Len(process.feed) - process.unmatched

\* A filter keeps exactly the addresses its rows name, or exactly the others,
\* and what it keeps of a denied token comes in pieces that do not overlap
\* (dictionary.go:929-1060).
FilterExact ==
    reader.pc = "filtered" =>
       LET named == Members({reader.kept[i].prefix : i \in DOMAIN reader.kept})
           asked == Members(reader.tokens)
       IN  /\ Members(reader.out) = IF reader.mode = "allow" THEN asked \cap named
                                    ELSE asked \ named
           /\ reader.mode = "deny" => \A t \in reader.tokens :
                 \A p, q \in FilterToken(t, reader.kept, "deny") : Holds(p, q) => p = q

\* While no file changes, the file of one family answers as the whole
\* dictionary would (dictionary.go:722-735, 860-884).
FamilySuffices ==
    calm /\ reader.pc = "filtered" =>
       Members(reader.out) =
          {a \in Members(reader.tokens) :
             (\E i \in DOMAIN dict["all"] : /\ Holds(dict["all"][i].prefix, a)
                                            /\ dict["all"][i].colo \in reader.colos)
             <=> reader.mode = "allow"}

\* The buckets of the cache answer as the scan of all rows (lookup.go:8-14).
LookupsAgree ==
    process.pc = "all" =>
       \A a \in Addresses : BucketLookup(process.rows, a) = LookupColo(process.rows, a)

\* A worker gets no dictionary that was replaced longer ago than the recheck
\* interval when it asked (head.go:891-894).
WithinWindow ==
    \A w \in Workers :
       worker[w].pc = "hit" /\ worker[w].of < version =>
          replaced[worker[w].of + 1] + Recheck > worker[w].now

\* The invariants above together.
Safety ==
    /\ TypeOK /\ ThreeOfOneRun /\ RowsHaveReasons /\ CountsAgree
    /\ FilterExact /\ FamilySuffices /\ LookupsAgree /\ WithinWindow

\* The action properties above together.
Kept == KeepsLastFiles /\ RowsStay
=============================================================================
