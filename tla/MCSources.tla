----------------------------- MODULE MCSources ------------------------------
(***************************************************************************)
(* Small instances of the parts that turn the sources of a task into       *)
(* candidates: the parser of one source, its candidate pool, the pool of   *)
(* readers over all of them, the MCIS search, the COLO dictionary.  Each   *)
(* behaviour is one of these parts at work; the others stay in an initial  *)
(* state.                                                                  *)
(***************************************************************************)
EXTENDS Integers, Sequences, TLC

CONSTANTS Parts, w1, w2, NoLine, NoLookup, Broken, Empty, Absent,
          Singles, Blocks, Domains, Resolved, Lines, ParseLimit, LookupBudget, MaxLines,
          Tokens, AddressesOf, Key, Sub, PoolLimit, ParseFactor, Limits, MaxTokens,
          NSources, Ips, Readings, Concurrency, MaxUrls

VARIABLES
    part,
    \* SourceParse
    input, at, todo, inLine, valid, invalid, ports, cache, lookups, clock,
    parseCancelled, truncated, lookupBudgetExceeded, resolveBudgetExceeded,
    stopped, skipped,
    \* SourcePool
    source, step, tokens, cut, entries, warned,
    \* SourcePrepare
    holds, phase, url, outcome, prepareCancelled, main, next, result, filters,
    heap,
    \* MCISEngine
    pc, failed, limit, budget, tasks, done, worker, submitted, completed,
    nodes, split, samples, lastSplit, focus, top, searchCancelled,
    \* ColoDictionary
    coloTime, raw, dict, update, process, reader, coloCache, tracer, runs,
    calm, version, replaced

----------------------------------------------------------------------------
(* Three addresses, a block, three domains of which one does not resolve;  *)
(* inputs of up to three lines that mix them.                              *)
Line(port, list, bad, domains) ==
    [port |-> port, tokens |-> list, bad |-> bad, domains |-> domains]
MCLines == {Line(0, <<>>, {}, <<>>), Line(443, <<"ip1">>, {}, <<>>),
            Line(2053, <<"ip1", "ip3">>, {"1.2.3.999"}, <<"d2">>),
            Line(443, <<"net">>, {}, <<>>), Line(70000, <<"ip2">>, {}, <<>>),
            Line(443, <<"net", "ip2">>, {}, <<>>),
            Line(443, <<>>, {"x"}, <<"d1", "gone">>),
            Line(0, <<>>, {}, <<"gone", "d2", "d1">>)}
MCResolved == [d1 |-> <<"ip1", "ip2">>, d2 |-> <<"ip3">>, gone |-> <<>>]
Parse == INSTANCE SourceParse WITH
    Addresses <- Singles, Answers <- Resolved, Limit <- ParseLimit, cancelled <- parseCancelled

(* Two IPv4 addresses and a block that holds them both, an IPv6 address    *)
(* and a block with another address of its /64.                            *)
MCMembers == [a0 |-> <<0>>, a1 |-> <<1>>, quad |-> <<0, 1, 2, 3>>, six |-> <<11>>, six63 |-> <<10, 20>>]
MCKey == [x \in 0..29 |-> IF x < 10 THEN x ELSE (x \div 10) * 10]
MCSub == [a0 |-> <<>>, a1 |-> <<"a1">>, quad |-> <<"a0", "a1">>, six |-> <<"six">>, six63 |-> <<"six">>]
MCLimits == {-1, 1, 2, 9}
Pool == INSTANCE SourcePool WITH Members <- AddressesOf
NoFilters == CHOOSE x \in Pool!Sources :
    x.filter = "none" /\ ~x.country /\ ~x.deny /\ x.dictionary = "ok"

(* Three sources over two addresses, read two at a time; lists of codes,   *)
(* one that resolves to none, no list, a list that denies.                 *)
Reading(list, mode, active, colos) ==
    [entries |-> list, mode |-> mode, active |-> active, colos |-> colos]
MCReadings == {Reading(<<1, 2>>, "allow", TRUE, {"SJC"}), Reading(<<1>>, "allow", TRUE, {"LAX"}),
               Reading(<<2>>, "allow", FALSE, {}), Reading(<<2>>, "deny", TRUE, {"SJC"}),
               Reading(<<2, 1>>, "allow", TRUE, {})}
Prepare == INSTANCE SourcePrepare WITH cancelled <- prepareCancelled

(* Addresses of three bits in networks of two, a tree of at most four      *)
(* prefixes; inputs with one root, with an overlap, with two addresses of  *)
(* one network; three probes by one worker.                                *)
Good(ms, colo) == [ok |-> TRUE, ms |-> ms, colo |-> colo]
Engine == INSTANCE MCISEngine WITH
    Workers <- {w1}, Heads <- 1, AddrBits <- 3, KeyBits <- 2, Step <- 1, MaxBits <- 2,
    MinSamples <- 1, MaxNodes <- 4, SplitInterval <- 1, Explore <- 1, Rebalance <- 2,
    Rounds <- 2, SkipFirst <- 1, Answers <- {Good(1, "AAA"), Good(2, "AAA"), Good(1, "BBB")},
    AllowedColos <- {"AAA"}, Inputs <- {{<<>>}, {<<0>>, <<0, 1>>}, {<<0, 0, 0>>, <<0, 0, 1>>}},
    Limits <- {1, 2}, Overrides <- {3}, cancelled <- searchCancelled

(* Two prefixes in each other, cities known to the table, by another name, *)
(* to the locations, in two countries; an update and a process, two        *)
(* processes and a filter, two processes and two workers.                  *)
Block(v4, bits) == [v4 |-> v4, bits |-> bits]
Fed(v4, bits, country, region, city) ==
    [prefix |-> Block(v4, bits), country |-> country, region |-> region, city |-> city]
MCFeeds == {<<Fed(TRUE, <<0>>, "US", "CA", "San Jose"), NoLine,
              Fed(TRUE, <<0, 1>>, "JP", "12", "Narita"),
              Fed(FALSE, <<1>>, "Japan", "", "Kyoto"), Fed(TRUE, <<1, 0>>, "ZZ", "", "Paris")>>,
            <<Fed(FALSE, <<>>, "FR", "", "Paris"), Fed(TRUE, <<>>, "US", "CA", "San Jose"),
              Fed(TRUE, <<>>, "US", "", "Paris")>>, <<NoLine>>}
Place(country, city, colo) == [country |-> country, city |-> city, colo |-> colo]
Once == [update |-> 0, process |-> 1, read |-> 0, lookup |-> 0, time |-> 0, fault |-> 0]
Dict == INSTANCE ColoDictionary WITH
    Width <- 3, FirstBits <- 2, Colos <- <<"CDG", "DFW", "KIX", "NRT", "SJC">>,
    Codes <- {"FR", "JP", "US", "ZZ"},
    StaticMap <- (<<"US", "CA", "San Jose">> :> {"SJC"} @@ <<"JP", "", "Tokyo">> :> {"NRT"}),
    Aliases <- (<<"JP", "12", "Narita">> :> <<"Tokyo">>),
    Feeds <- MCFeeds, Names <- {[Japan |-> "JP"]},
    Places <- {{Place("JP", "Kyoto", "KIX"), Place("JP", "Kyoto", "NRT"),
                Place("US", "Paris", "DFW"), Place("FR", "Paris", "CDG")}},
    TokenSets <- {{Block(TRUE, <<>>)}, {Block(TRUE, <<0, 1, 1>>), Block(FALSE, <<1>>)},
                  {Block(FALSE, <<>>)}},
    WordSets <- {{"SJC"}, {"JP", "DFW"}, {"other"}},
    Workers <- {w1, w2}, Mirrors <- 1, Recheck <- 2,
    Budgets <- {[Once EXCEPT !.update = 1, !.fault = 1],
                [Once EXCEPT !.process = 2, !.read = 1, !.fault = 1],
                [Once EXCEPT !.process = 2, !.lookup = 2, !.time = 2]},
    clock <- coloTime, cache <- coloCache, worker <- tracer

ASSUME ParseAssumption ==
    Parse!TokensApart /\ Parse!LimitsAreNumbers /\ Parse!AnswersAreAddresses /\ Parse!LinesAreRead
ASSUME PoolAssumption == Pool!NumbersAssumption /\ Pool!TokensAssumption
ASSUME PrepareAssumption == Prepare!CountsAssumption /\ Prepare!ReadingsAssumption
ASSUME Engine!MCISAssumption
ASSUME Dict!WidthAssumption /\ Dict!TablesAssumption /\ Dict!BoundsAssumption

----------------------------------------------------------------------------
parseVars == <<input, at, todo, inLine, valid, invalid, ports, cache, lookups,
               clock, parseCancelled, truncated, lookupBudgetExceeded,
               resolveBudgetExceeded, stopped, skipped>>
poolVars == <<source, step, tokens, cut, entries, warned>>
prepareVars == <<holds, phase, url, outcome, prepareCancelled, main, next,
                 result, filters, heap>>
engineVars == <<pc, failed, limit, budget, tasks, done, worker, submitted,
                completed, nodes, split, samples, lastSplit, focus, top,
                searchCancelled>>
coloVars == <<coloTime, raw, dict, update, process, reader, coloCache, tracer,
              runs, calm, version, replaced>>
vars == <<part, parseVars, poolVars, prepareVars, engineVars, coloVars>>

Init ==
    /\ part \in Parts
    /\ part = "parse" \/ input = <<>>
    /\ Parse!Init
    /\ part = "pool" \/ source = NoFilters
    /\ Pool!Init
    /\ part = "prepare" \/ holds = [s \in Prepare!Sources |-> CHOOSE r \in Readings : TRUE]
    /\ part = "prepare" \/ phase = [s \in Prepare!Sources |-> "disabled"]
    /\ Prepare!Init
    /\ Engine!Init
    /\ part = "colo" \/ (raw = [s \in Dict!Sources |-> Absent] /\ runs = [Once EXCEPT !.update = 1, !.fault = 1])
    /\ Dict!Init

Next ==
    /\ UNCHANGED part
    /\ \/ /\ part = "parse" /\ Parse!Next
          /\ UNCHANGED <<poolVars, prepareVars, engineVars, coloVars>>
       \/ /\ part = "pool" /\ Pool!Next
          /\ UNCHANGED <<parseVars, prepareVars, engineVars, coloVars>>
       \/ /\ part = "prepare" /\ Prepare!Next
          /\ UNCHANGED <<parseVars, poolVars, engineVars, coloVars>>
       \/ /\ part = "engine" /\ Engine!Next
          /\ UNCHANGED <<parseVars, poolVars, prepareVars, coloVars>>
       \/ /\ part = "colo" /\ Dict!Next
          /\ UNCHANGED <<parseVars, poolVars, prepareVars, engineVars>>

Spec == Init /\ [][Next]_vars
-----------------------------------------------------------------------------
(* Each property has its parts stated, with what they are about, at the    *)
(* end of the module of the part; the types are among them.                *)

(* What a source lost to one of three budgets is warned of, a domain costs *)
(* one look-up, a port belongs to a kept address (sourceparse.go:96-99,    *)
(* 184-231).                                                               *)
ParseSafe == part = "parse" => Parse!Safety

(* The pool has one candidate per network within its limit, is whole or    *)
(* warned of, and holds nothing a filter in effect rejects                 *)
(* (source_build.go:79-94, 155-193, 226-235).                              *)
PoolSafe == part = "pool" => Pool!Safety

(* The result of several sources does not depend on who answered first, no *)
(* outcome is merged while it is being written, a source that fails takes  *)
(* no other with it, and an address passes the filter of any of its        *)
(* sources (sources.go:216-333, head.go:167-206).                          *)
PrepareSafe == part = "prepare" => Prepare!Safety

(* While the search waits a result is on its way, a split puts no network  *)
(* out of reach, the list has one result per network and all through the   *)
(* filter, and the budget asks no more than there is and is accounted for  *)
(* (mcis/engine/engine.go, mcis/bandit/tree.go, source_mcis.go).           *)
SearchSafe == part = "engine" => Engine!Safety

(* A filter keeps exactly the addresses its dictionary names or exactly    *)
(* the others, with the file of one family as with the whole; the buckets  *)
(* answer as the scan; every row has a reason; a process that answers well *)
(* leaves files of one run; no worker has a dictionary replaced long ago   *)
(* (dictionary.go, lookup.go, head.go:891-937).                            *)
DictionarySafe == part = "colo" => Dict!Safety

(* A file of the dictionary gives way only to what its source sent in an   *)
(* update that had a GEOFEED, and a dictionary never loses all its rows    *)
(* (dictionary.go:204-228, 255-258).                                       *)
DictionaryKept == Dict!Kept
=============================================================================
