------------------------------ MODULE ColoRows ------------------------------
(***************************************************************************)
(* The computations of the COLO dictionary (internal/colodict): the rows   *)
(* derived from a GEOFEED, the file a list of tokens is filtered with, the *)
(* filter itself and the two ways to look up an address.                   *)
(*                                                                         *)
(* A prefix is its family and its bits, so masking has nothing to do, a    *)
(* prefix contains another when its bits begin the other's, and the two    *)
(* halves of a prefix are got by appending a bit.  An address has all      *)
(* Width bits.  Names of cities and countries stand for what they are      *)
(* after normalizeName, regions for their code without the country.        *)
(***************************************************************************)
EXTENDS Naturals, Sequences, SequencesExt, FiniteSets

CONSTANTS
    Width,      \* bits of an address, of either family
    FirstBits,  \* bits of an address that choose its bucket: the first byte
    Colos,      \* the codes, in alphabetical order
    Codes,      \* country codes; other names of countries are looked up
    StaticMap,  \* geofeedColoMap: <<country, region, city>> to a set of codes
    Aliases,    \* geofeedCityAliases: <<country, region, city>> to cities
    NoLine,     \* a line of a GEOFEED that names no prefix
    NoLookup    \* no usable mapping files

WidthAssumption == Width \in Nat /\ FirstBits \in 1..Width
TablesAssumption ==
    /\ \A k \in DOMAIN StaticMap : StaticMap[k] \subseteq Range(Colos) /\ StaticMap[k] # {}
    /\ \A k \in DOMAIN Aliases : Len(k) = 3

-----------------------------------------------------------------------------
(* Prefixes.                                                               *)
Prefix(v4, bits) == [v4 |-> v4, bits |-> bits]
BitStrings(n) == [1..n -> {0, 1}]
Addresses == {Prefix(f, b) : f \in BOOLEAN, b \in BitStrings(Width)}
Holds(p, q) == p.v4 = q.v4 /\ IsPrefix(p.bits, q.bits)
Members(ps) == {a \in Addresses : \E p \in ps : Holds(p, a)}

\* Mutant: the token is returned even where the entry is narrower.
IntersectToken(p, q) == IF Holds(p, q) \/ Holds(q, p) THEN {p} ELSE {}

\* intersectPrefixes: the narrower of the two, if one lies in the other.
Intersect(p, q) ==
    IF Holds(q, p) THEN {p} ELSE IF Holds(p, q) THEN {q} ELSE {}

\* Mutant: the half that does not hold the removed prefix is forgotten.
SubtractHalf(p, r) ==
    IF Holds(r, p) \/ Holds(p, r) THEN {} ELSE {p}

\* subtractPrefix: halve until a half is untouched or removed altogether.
Subtract(p, r) ==
    LET Below == UNION {BitStrings(n) : n \in Len(p.bits)..Width}
        rest[b \in Below] ==
            LET here == Prefix(p.v4, b)
            IN  IF ~Holds(here, r) /\ ~Holds(r, here) THEN {here}
                ELSE IF Holds(r, here) THEN {}
                ELSE rest[Append(b, 0)] \cup rest[Append(b, 1)]
    IN  rest[p.bits]

-----------------------------------------------------------------------------
(* From a GEOFEED to rows.                                                 *)

\* The keys of an entry in the tables, the most precise first.
MappingKeys(country, region, city) ==
    << <<country, region, city>>, <<country, "", city>>, <<"", "", city>> >>

\* The city of an entry and its other names.
CityCandidates(country, region, city) ==
    FoldLeft(LAMBDA all, k : IF k \in DOMAIN Aliases THEN all \o Aliases[k] ELSE all,
             <<city>>, MappingKeys(country, region, city))

\* What the built-in table says of the first key it has.
StaticColos(country, region, city) ==
    LET known == SelectSeq(MappingKeys(country, region, city), LAMBDA k : k \in DOMAIN StaticMap)
    IN  IF known = <<>> THEN {} ELSE StaticMap[known[1]]

CountryCityColos(lookup, country, city) ==
    {p.colo : p \in {q \in lookup.places : q.country = country /\ q.city = city}}

\* Mutant: any country with a city of that name will do.
CityColosAny(lookup, city) == {p.colo : p \in {q \in lookup.places : q.city = city}}

\* A city alone decides when one country only has a city of that name.
CityColos(lookup, city) ==
    LET there == {q \in lookup.places : q.city = city}
    IN  IF Cardinality({q.country : q \in there}) = 1 THEN {q.colo : q \in there} ELSE {}

CountryOf(entry, lookup) ==
    IF entry.country \in Codes \/ lookup = NoLookup
       \/ entry.country \notin DOMAIN lookup.names
    THEN entry.country ELSE lookup.names[entry.country]

FirstAnswer(cities, Answer(_)) ==
    LET known == SelectSeq(cities, LAMBDA c : Answer(c) # {})
    IN  IF known = <<>> THEN {} ELSE Answer(known[1])

\* colosForGeofeedEntryWithLookup.
ColosForEntry(entry, lookup) ==
    LET country == CountryOf(entry, lookup)
        cities == CityCandidates(country, entry.region, entry.city)
        static == FirstAnswer(cities, LAMBDA c : StaticColos(country, entry.region, c))
        local == FirstAnswer(cities, LAMBDA c : CountryCityColos(lookup, country, c))
    IN  IF static # {} THEN static
        ELSE IF lookup = NoLookup THEN {}
        ELSE IF local # {} THEN local
        ELSE FirstAnswer(cities, LAMBDA c : CityColos(lookup, c))

Rank(colo) == CHOOSE i \in DOMAIN Colos : Colos[i] = colo

\* IPv4 first, then by address, the wider prefix first, then by code.
Before(r, s) ==
    LET p == r.prefix
        q == s.prefix
    IN  IF p.v4 # q.v4 THEN p.v4
        ELSE IF p = q THEN Rank(r.colo) < Rank(s.colo)
        ELSE \/ IsStrictPrefix(p.bits, q.bits)
             \/ \E i \in DOMAIN p.bits \cap DOMAIN q.bits :
                   /\ \A j \in 1 .. i - 1 : p.bits[j] = q.bits[j]
                   /\ p.bits[i] < q.bits[i]

\* ParseGeofeed keeps the lines that name a prefix.
Entries(feed) == SelectSeq(feed, LAMBDA line : line # NoLine)

\* buildColoEntries: a prefix has a row per code, from its first entry.
Rows(feed, lookup) ==
    LET made == {m \in (DOMAIN feed) \X Range(Colos) : m[2] \in ColosForEntry(feed[m[1]], lookup)}
        same(m, n) == m[2] = n[2] /\ feed[m[1]].prefix = feed[n[1]].prefix
    IN  SetToSortSeq(
            {[prefix |-> feed[m[1]].prefix, colo |-> m[2], country |-> feed[m[1]].country] :
                m \in {n \in made : \A k \in made : same(k, n) => n[1] <= k[1]}},
            Before)

\* Mutant: what only the mapping files match is counted as unmatched.
UnmatchedStatic(feed, lookup) ==
    Cardinality({i \in DOMAIN feed : ColosForEntry(feed[i], NoLookup) = {}})

Unmatched(feed, lookup) == Cardinality({i \in DOMAIN feed : ColosForEntry(feed[i], lookup) = {}})

\* countMatchedGeofeedRows: the entries whose prefix has a row.
MatchedRows(feed, rows) ==
    Cardinality({i \in DOMAIN feed : \E r \in Range(rows) : r.prefix = feed[i].prefix})

OfFamily(rows, v4) == SelectSeq(rows, LAMBDA r : r.prefix.v4 = v4)

-----------------------------------------------------------------------------
(* The filter of one source.                                               *)

\* Mutant: one IPv4 token is enough for the IPv4 file.
PathForAny(tokens) ==
    IF \E t \in tokens : t.v4 THEN "v4" ELSE IF tokens = {} THEN "all" ELSE "v6"

\* ColoPathForTokens: the file of the family, if the tokens have one family.
PathFor(tokens) ==
    IF tokens = {} \/ {t.v4 : t \in tokens} = BOOLEAN THEN "all"
    ELSE IF \A t \in tokens : t.v4 THEN "v4" ELSE "v6"

\* ResolveTokensToColos: codes stand for themselves, a country for the codes
\* of its rows.
ResolvedColos(words, rows) ==
    (words \cap Range(Colos))
    \cup {r.colo : r \in {s \in Range(rows) : s.country \in words \cap Codes}}

\* FilterToken and filterTokenDeny on a token, with the rows kept.
FilterToken(token, kept, mode) ==
    IF mode = "allow" THEN UNION {Intersect(token, kept[i].prefix) : i \in DOMAIN kept}
    ELSE FoldLeft(LAMBDA left, r : UNION {Subtract(p, r.prefix) : p \in left}, {token}, kept)

-----------------------------------------------------------------------------
(* The look-up of an address.                                              *)

FirstMatching(rows, addr) ==
    LET hits == SelectSeq(rows, LAMBDA r : Holds(r.prefix, addr))
    IN  IF hits = <<>> THEN "" ELSE hits[1].colo

\* LookupColo scans all rows.
LookupColo(rows, addr) == FirstMatching(rows, addr)

\* Mutant: a short prefix goes to the bucket of its own address only.
InBucketOwn(prefix, first) ==
    IF Len(prefix.bits) >= FirstBits THEN SubSeq(prefix.bits, 1, FirstBits) = first
    ELSE first = prefix.bits \o [i \in 1 .. FirstBits - Len(prefix.bits) |-> 0]

\* ColoLookup.add: a prefix shorter than the first byte is in every bucket it
\* covers.
InBucket(prefix, first) ==
    IF Len(prefix.bits) >= FirstBits THEN SubSeq(prefix.bits, 1, FirstBits) = first
    ELSE IsPrefix(prefix.bits, first)

\* ColoLookup.Lookup: the rows of the bucket, in the order of the dictionary.
BucketLookup(rows, addr) ==
    FirstMatching(SelectSeq(rows, LAMBDA r : r.prefix.v4 = addr.v4
                                      /\ InBucket(r.prefix, SubSeq(addr.bits, 1, FirstBits))),
                  addr)
=============================================================================
