------------------------------ MODULE Pricing ------------------------------
(***************************************************************************)
(* The prices of instance types in one region, and the caches they pass    *)
(* through: the provider's own (pricing.go of each cloud), the pricing     *)
(* cache in memory and its table in SQLite (internal/store), and at AWS    *)
(* and Azure the list of instance types, which carries prices of its own.  *)
(* Every cache counts its own time from when it was filled.  A price is    *)
(* its age since the vendor was asked, and what it rests on.               *)
(***************************************************************************)
EXTENDS Integers, FiniteSets, Functions

CONSTANTS
  Types,      \* the instance types
  Odd,        \* those of which an absurd price may be quoted
  CacheTTL,   \* one hour, in units of time
  TableTTL    \* a day

ASSUME PricingAssumption == Odd \subseteq Types /\ CacheTTL \in Nat \ {0} /\ TableTTL \in Nat \ {0}

VARIABLES
  vendor,     \* the cloud
  provider,   \* the provider's cache
  memory,     \* the pricing cache in memory
  table,      \* the table pricing_cache
  listed,     \* AWS and Azure: the cached list of instance types
  answered    \* history: how long ago the vendor last quoted anything

pricingVars == <<vendor, provider, memory, table, listed, answered>>

Vendors == {"aws", "gcp", "azure"}

\* Ages above this make no difference.
Ancient == TableTTL + 3 * CacheTTL
PriceAges == 0 .. Ancient

Price == [basis : {"quote", "absurd", "estimate", "none"}, age : PriceAges]
NoPrice == [basis |-> "none", age |-> 0]
NoPrices == [t \in Types |-> NoPrice]
Cache == [filled : 0 .. CacheTTL, prices : [Types -> Price]]
EmptyCache == [filled |-> CacheTTL, prices |-> NoPrices]

\* What is kept of AWS and GCP prices is never absurd.
PricingTypeOK ==
  /\ vendor \in Vendors \union {"none"}
  /\ provider \in Cache /\ memory \in Cache /\ listed \in Cache
  /\ table \in [Types -> Price] /\ answered \in PriceAges
  /\ vendor # "azure" =>
       \A t \in Types, prices \in {memory.prices, table} :
         prices[t].basis # "absurd"

PricingInit ==
  /\ vendor = "none"
  /\ provider = EmptyCache /\ memory = EmptyCache /\ listed = EmptyCache
  /\ table = NoPrices /\ answered = Ancient

-----------------------------------------------------------------------------
Holds(prices) == \E t \in Types : prices[t].basis # "none"
Fresh(cache) == cache.filled < CacheTTL
Filled(prices) == [filled |-> 0, prices |-> prices]

\* Mutant of Valid: rows of any age.
ValidEver(row) == row.basis # "none"
Valid(row) == row.basis # "none" /\ row.age < TableTTL

PriceRows == [t \in Types |-> IF Valid(table[t]) THEN table[t] ELSE NoPrice]

\* PricingCache.Get: what it answers, and what that leaves in memory.
CacheAnswers == IF Fresh(memory) THEN memory.prices ELSE PriceRows
MemoryAfterGet == IF ~ Fresh(memory) /\ Holds(PriceRows) THEN Filled(PriceRows) ELSE memory

\* A quote for some types, possibly an absurd one.
Quotes ==
  {q \in [Types -> {[basis |-> b, age |-> 0] : b \in {"quote", "absurd", "none"}}] :
     \A t \in Types \ Odd : q[t].basis # "absurd"}

\* What a type is estimated to cost from its size.
Estimate == [basis |-> "estimate", age |-> 0]
Enriched(prices) ==
  [t \in Types |-> IF prices[t].basis = "none" THEN Estimate ELSE prices[t]]

\* fetchRealPricing: an answer without a price counts as none.
AWSAnswers == {q \in Quotes : Holds(q)}

\* fetchGCPPricingFromAPI has rates of some families of types, and
\* computePriceWithRates estimates what the others cost.
GCPAnswers == {Enriched(q) : q \in {r \in Quotes : Holds(r)}}

\* fetchRetailPrices: an answer without a price is an answer.
AzureAnswers == Quotes

Answers == CASE vendor = "aws" -> AWSAnswers
             [] vendor = "gcp" -> GCPAnswers
             [] OTHER -> AzureAnswers

\* SanitizePrices, which Azure does without.
Sane(prices) ==
  [t \in Types |-> IF prices[t].basis = "absurd" THEN NoPrice ELSE prices[t]]
Sanitized(prices) == IF vendor = "azure" THEN prices ELSE Sane(prices)

\* Rows of types that are no longer quoted stay.
Upserted(prices) ==
  [t \in Types |-> IF prices[t].basis = "none" THEN table[t] ELSE prices[t]]

\* PricingCache.Put: memory first, then the table, in a transaction that may fail.
Put(prices) ==
  /\ memory' = Filled(prices)
  /\ table' \in {Upserted(prices), table}

-----------------------------------------------------------------------------
(* GetCurrentPricing, when the provider's cache has expired.               *)

Expired == vendor # "none" /\ ~ Fresh(provider)

AskCache ==
  /\ Expired /\ Holds(CacheAnswers)
  /\ provider' = Filled(CacheAnswers) /\ memory' = MemoryAfterGet
  /\ UNCHANGED <<vendor, table, listed, answered>>

\* What the vendor has answered is written down.
AskVendor ==
  /\ Expired /\ ~ Holds(CacheAnswers)
  /\ \E a \in Answers : provider' = Filled(Sanitized(a)) /\ Put(Sanitized(a))
  /\ answered' = 0
  /\ UNCHANGED <<vendor, listed>>

\* The price list cannot be read, but the machine types can.  Azure answers
\* with an error then.
AskGCPEstimates ==
  /\ vendor = "gcp" /\ Expired /\ ~ Holds(CacheAnswers)
  /\ provider' = Filled(Enriched(NoPrices))
  /\ UNCHANGED <<vendor, memory, table, listed, answered>>

\* AWS goes by the prices of its instance types, however they came about.
AskAWSTypes ==
  /\ vendor = "aws" /\ Expired /\ ~ Holds(CacheAnswers)
  /\ IF Fresh(listed) THEN provider' = Filled(listed.prices) /\ UNCHANGED listed
     ELSE \E q \in Quotes :
            provider' = Filled(Enriched(q)) /\ listed' = Filled(Enriched(q))
  /\ UNCHANGED <<vendor, memory, table, answered>>

\* GetInstanceTypes, asked by itself.  It does not sanitize, nor write down.
ListAWSTypes ==
  /\ vendor = "aws" /\ ~ Fresh(listed)
  /\ \E q \in IF Holds(CacheAnswers) THEN {CacheAnswers} ELSE Quotes :
       listed' = Filled(Enriched(q))
  /\ memory' = MemoryAfterGet
  /\ UNCHANGED <<vendor, provider, table, answered>>

\* getAzureVMSizes, once the prices have been asked for; without them when they
\* cannot be had.
ListAzureSizes ==
  /\ vendor = "azure" /\ ~ Fresh(listed)
  /\ listed' = Filled(IF Fresh(provider) THEN provider.prices ELSE NoPrices)
  /\ UNCHANGED <<vendor, provider, memory, table, answered>>

-----------------------------------------------------------------------------
StartVendor ==
  /\ vendor = "none" /\ vendor' \in Vendors
  /\ UNCHANGED <<provider, memory, table, listed, answered>>

RestartPricing ==
  /\ provider' = EmptyCache /\ memory' = EmptyCache /\ listed' = EmptyCache
  /\ UNCHANGED <<vendor, table, answered>>

OlderPrice(p) == IF p.basis = "none" \/ p.age = Ancient THEN p ELSE [p EXCEPT !.age = @ + 1]
OlderPrices(prices) == [t \in Types |-> OlderPrice(prices[t])]
OlderAge(a) == IF a = Ancient THEN Ancient ELSE a + 1
OlderCache(c) == [filled |-> IF Fresh(c) THEN c.filled + 1 ELSE c.filled,
                  prices |-> OlderPrices(c.prices)]

\* Nobody looks at a cache that has expired; the provider's is kept for the sake
\* of NoOlderQuotes.
Current(c) == IF Fresh(c) THEN c ELSE EmptyCache

PriceClock ==
  /\ vendor # "none"
  /\ provider' = OlderCache(provider) /\ memory' = Current(OlderCache(memory))
  /\ listed' = Current(OlderCache(listed)) /\ table' = OlderPrices(table)
  /\ answered' = OlderAge(answered)
  /\ UNCHANGED vendor

PricingNext ==
  \/ StartVendor \/ RestartPricing \/ PriceClock
  \/ AskCache \/ AskVendor \/ AskGCPEstimates \/ AskAWSTypes
  \/ ListAWSTypes \/ ListAzureSizes

-----------------------------------------------------------------------------
Quoted(p) == p.basis \in {"quote", "absurd"}

Within(cache, caches) ==
  Fresh(cache) =>
    \A t \in Types : Quoted(cache.prices[t]) =>
      cache.prices[t].age <= (TableTTL - 1) + caches * (CacheTTL - 1)

\* No caller is given a price that is older than the caches allow together:
\* they do not renew one another for ever.  It is not the one hour of the first
\* cache nor the day of the table, since each counts from when it was filled;
\* the list of types adds its own, at AWS before the provider's and at Azure
\* behind it.
PriceAgeBounded ==
  /\ Within(provider, IF vendor = "aws" THEN 3 ELSE 2)
  /\ Within(listed, IF vendor = "aws" THEN 2 ELSE 3)

\* The pricing cache, in memory and on disk, holds what the vendor has quoted,
\* and nothing absurd where prices are sanitized.  Estimates get into it at GCP
\* only, and only together with quotes: an outage leaves none behind.
OnlyQuotesKept ==
  \A t \in Types, prices \in {table, memory.prices} :
    /\ prices[t].basis = "absurd" => vendor = "azure"
    /\ prices[t].basis = "estimate" => vendor = "gcp" /\ prices[t].age >= answered

\* The provider never goes back to an older quote of a type than it has had,
\* over expiry, outages, partial answers and failed writes: the vendor is only
\* asked when no row is valid any more.
NoOlderQuotes ==
  [][ provider'.filled = 0 =>
        \A t \in Types :
          Quoted(provider.prices[t]) /\ Quoted(provider'.prices[t]) =>
            provider'.prices[t].age <= provider.prices[t].age ]_pricingVars

\* The chain of caches as a whole: the prices given are of a bounded age, what is
\* kept was quoted, and no older quote ever takes the place of a younger one.
PricesFresh == [](PriceAgeBounded /\ OnlyQuotesKept) /\ NoOlderQuotes
=============================================================================
