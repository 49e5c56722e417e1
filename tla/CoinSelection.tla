---------------------------- MODULE CoinSelection ----------------------------
(***************************************************************************)
(* How a spend finds its coins (internal/application/vtxo.go): the vault's *)
(* VTXOs are listed page by page from the Operator's indexer, which keeps  *)
(* changing between two requests, and the largest of them are taken until  *)
(* amount, change and the Operator's own fee add up exactly. Fee programs  *)
(* give fractions of a sat: fees are counted in half sats here and rounded *)
(* up as the code does. A coin is its outpoint, a number, so that outpoints *)
(* are ordered.                                                            *)
(***************************************************************************)
EXTENDS Integers, Sequences, SequencesExt, FiniteSetsExt

CONSTANTS
    Coins,        \* outpoints, natural numbers
    Value,        \* [Coins -> sats]
    Programs,     \* fee programs: [input: [Coins -> half sats], output: [sats -> half sats]]
    Amounts,      \* recipient amounts that enforceVtxoAmount accepts
    Dust,         \* program.DustSats
    FeeCap,       \* the vault's absolute fee cap
    MaxInt,       \* stands for math.MaxInt64
    MaxUint,      \* stands for math.MaxUint64
    MaxInputs,    \* maxVtxoSpendInputs
    Budget,       \* maxVtxoFeeProgramEvaluations
    PageSize,     \* arkResolverVtxoPageSize
    MaxPages,     \* arkResolverVtxoMaxPages
    MaxChanges    \* bound of the indexer's changes during one listing

\* Amounts are uint64 and positive; a fee program gives a fee for every amount.
ASSUME CoinAssumption ==
    /\ Coins \subseteq Nat /\ IsFiniteSet(Coins) /\ Value \in [Coins -> Nat]
    /\ \A f \in Programs :
          /\ f.input \in [Coins -> Nat]
          /\ 0..MaxUint \subseteq DOMAIN f.output
          /\ \A x \in DOMAIN f.output : f.output[x] \in Nat
    /\ MaxUint \in Nat /\ Amounts \subseteq 1..MaxUint /\ Dust \in 1..MaxUint
    /\ FeeCap \in Nat /\ MaxInputs \in Nat /\ PageSize \in Nat

VARIABLES
    index,        \* the indexer's list: a sequence of [coin, spent]
    changes,
    amount, fees, \* what the request asks for, and the fee program it was given
    pc,
    pageIndex, pageTotal, all,    \* listVtxoPages
    outcome       \* what selectSpendVtxos returns

vars == <<index, changes, amount, fees, pc, pageIndex, pageTotal, all, outcome>>

-----------------------------------------------------------------------------
Refused(why) == [ok |-> FALSE, why |-> why]
Pending == Refused("pending")

CoinsOf(s) == [i \in DOMAIN s |-> s[i].coin]
Entry(c) == [coin |-> c, spent |-> FALSE]

Init ==
    /\ \E S \in SUBSET Coins : \E s \in SetToSeqs(S) :
          /\ S = Coins \/ \A i, j \in DOMAIN s : i < j => s[i] < s[j]
          /\ index = [i \in DOMAIN s |-> Entry(s[i])]
    /\ changes = 0
    /\ amount \in Amounts /\ fees \in Programs
    /\ pc = "list"
    /\ pageIndex = 1 /\ pageTotal = 0 /\ all = <<>>
    /\ outcome = Pending

-----------------------------------------------------------------------------
(* The indexer: another spend confirms, or a payment to the vault arrives. *)

indexerChanges ==
    /\ pc = "list" /\ changes < MaxChanges
    /\ changes' = changes + 1
    /\ \/ \E c \in Coins \ Range(CoinsOf(index)) : index' = <<Entry(c)>> \o index
       \/ \E i \in DOMAIN index : index' = [index EXCEPT ![i].spent = TRUE]
       \/ \E i \in DOMAIN index : index' = RemoveAt(index, i)
    /\ UNCHANGED <<amount, fees, pc, pageIndex, pageTotal, all, outcome>>

ceilDiv(a, b) == (a + b - 1) \div b

\* The page a request for page p is answered with.
indexerPage(p) ==
    LET total == ceilDiv(Len(index), PageSize)
    IN  [total |-> total,
         next |-> IF p < total THEN p + 1 ELSE total,
         vtxos |-> SubSeq(index, (p - 1) * PageSize + 1, Min({p * PageSize, Len(index)}))]

-----------------------------------------------------------------------------
(* listVtxoPages: one request of the loop, and its exits. *)

refuse(why) ==
    /\ outcome' = Refused(why)
    /\ pc' = "done"
    /\ UNCHANGED <<index, changes, amount, fees, pageIndex, pageTotal, all>>

listed(entries) ==
    /\ all' = all \o entries
    /\ pc' = "select"
    /\ UNCHANGED <<index, changes, amount, fees, pageIndex, outcome>>

\* The checks of one page, in the code's order, as the page's own verdict.
pageError(page, total) ==
    \/ pageIndex = 1 /\ page.total > MaxPages
    \/ page.total # total
    \/ total > 0 /\ pageIndex > total
    \/ total > 0 /\ Len(page.vtxos) = 0
    \/ pageIndex < total /\ Len(page.vtxos) # PageSize

listVtxoPages ==
    /\ pc = "list"
    /\ LET page == indexerPage(pageIndex)
           total == IF pageIndex = 1 THEN page.total ELSE pageTotal
       IN  \/ /\ pageError(page, total)
              /\ refuse("indexer")
           \/ /\ ~ pageError(page, total)
              /\ pageTotal' = total
              /\ \/ total \in {0, pageIndex} /\ listed(page.vtxos)
                 \/ /\ pageIndex < total
                    /\ all' = all \o page.vtxos
                    /\ pageIndex' = page.next
                    /\ UNCHANGED <<index, changes, amount, fees, pc, outcome>>

\* A request to the indexer fails, the fee selection slots are all taken, the
\* request is cancelled, or the fee program cannot be evaluated.
selectionFails ==
    /\ pc \in {"list", "select"}
    /\ refuse("failed")

-----------------------------------------------------------------------------
(* Fees. *)

\* Mutation: a fraction of a sat is dropped.
MutExactFeeSats(half) == half \div 2

exactFeeSats(half) == ceilDiv(half, 2)

SumOver(coins, f) == SumFunction([i \in DOMAIN coins |-> f[coins[i]]])

\* estimator.Eval over the inputs and the outputs of the transaction.
estimate(coins, outputs) ==
    exactFeeSats(SumOver(coins, fees.input) + SumOver(outputs, fees.output))

effective(c) == Value[c] - exactFeeSats(fees.input[c])

-----------------------------------------------------------------------------
(* Selection. *)

\* Mutation: duplicates are let through.
MutDistinctOutpoints(s) == TRUE

\* CanonicalVtxoBundleInputs and SpendableVtxos refuse an outpoint listed twice.
distinctOutpoints(s) == IsInjective(s)

\* A list put in order: before[i] is the set of places of s that come before
\* place i, and places outside its domain are left out.
arranged(s, before) ==
    [k \in 1..Cardinality(DOMAIN before) |->
        s[CHOOSE i \in DOMAIN before : Cardinality(before[i]) = k - 1]]

\* What is at the given places, in the order it was in.
kept(s, places) == arranged(s, [i \in places |-> {j \in places : j < i}])

\* SpendableVtxos
spendable == CoinsOf(kept(all, {i \in DOMAIN all : ~ all[i].spent}))

\* vtxosToCoins checks the amount of a coin before it pays for its evaluation.
invalidIndexed ==
    \E i \in 1..Min({Len(spendable), Budget + 1}) : Value[spendable[i]] > MaxInt

\* vtxosToCoins: a coin that does not pay for its own input is left out.
vtxosToCoins ==
    LET s == spendable
    IN  kept(s, {i \in DOMAIN s : exactFeeSats(fees.input[s[i]]) < Value[s[i]]})

largerFirst(c, d) ==
    \/ effective(c) > effective(d)
    \/ effective(c) = effective(d) /\ c < d

sorted ==
    LET s == vtxosToCoins
    IN  arranged(s, [i \in DOMAIN s |->
            {j \in DOMAIN s : largerFirst(s[j], s[i]) \/ (s[j] = s[i] /\ j < i)}])
limit(order) == Min({Len(order), MaxInputs})
prefix(order, n) == SubSeq(order, 1, n)

\* solveVtxoSpendWithBudget. The candidates that leave a change of at least dust
\* are tried from zero upwards.
spare(coins) == SumOver(coins, Value) - amount
noChange(coins) ==
    LET fee == estimate(coins, <<amount>>)
    IN  fee <= FeeCap /\ spare(coins) = fee
candidates(coins) == {c \in 0..Min({FeeCap, spare(coins)}) : spare(coins) - c >= Dust}

matches(coins) ==
    {c \in candidates(coins) : estimate(coins, <<amount, spare(coins) - c>>) = c}

\* Fee program evaluations the call makes.
evaluations(coins) ==
    IF spare(coins) < 0 THEN 0
    ELSE IF noChange(coins) THEN 1
    ELSE 1 + IF matches(coins) = {} THEN Cardinality(candidates(coins)) ELSE Min(matches(coins)) + 1

used(order, n) ==
    Len(spendable) + SumFunction([m \in 1..n |-> evaluations(prefix(order, m))])

\* Mutation: the search stops at the first prefix that covers the amount.
MutAttempt(order, n) ==
    LET coins == prefix(order, n)
    IN  IF SumOver(coins, Value) > MaxUint THEN "overflow"
        ELSE IF used(order, n) > Budget THEN "busy"
        ELSE IF spare(coins) < 0 THEN "next"
        ELSE IF noChange(coins) \/ matches(coins) # {} THEN "solved"
        ELSE "insufficient"

attempt(order, n) ==
    LET coins == prefix(order, n)
    IN  IF SumOver(coins, Value) > MaxUint THEN "overflow"
        ELSE IF used(order, n) > Budget THEN "busy"
        ELSE IF spare(coins) >= 0 /\ (noChange(coins) \/ matches(coins) # {}) THEN "solved"
        ELSE "next"

\* The coins of a quote, in the order of their outpoints.
byOutpoint(s) ==
    arranged(s, [i \in DOMAIN s |-> {j \in DOMAIN s : s[j] < s[i] \/ (s[j] = s[i] /\ j < i)}])

solution(coins) ==
    LET fee == IF noChange(coins) THEN spare(coins) ELSE Min(matches(coins))
    IN  [ok |-> TRUE, fee |-> fee, change |-> spare(coins) - fee, picked |-> byOutpoint(coins)]

searched ==
    LET order == sorted
        ends == {n \in 1..limit(order) : attempt(order, n) # "next"}
    IN  IF ends = {} THEN Refused("insufficient")
        ELSE IF attempt(order, Min(ends)) = "solved" THEN solution(prefix(order, Min(ends)))
        ELSE Refused(attempt(order, Min(ends)))

selectSpendVtxos ==
    /\ pc = "select"
    /\ pc' = "done"
    /\ outcome' =
         IF ~ distinctOutpoints(spendable) THEN Refused("duplicate")
         ELSE IF invalidIndexed THEN Refused("invalid")
         ELSE IF Len(spendable) > Budget THEN Refused("busy")
         ELSE searched
    /\ UNCHANGED <<index, changes, amount, fees, pageIndex, pageTotal, all>>

Next == indexerChanges \/ listVtxoPages \/ selectionFails \/ selectSpendVtxos

Spec == Init /\ [][Next]_vars

-----------------------------------------------------------------------------
(* What a quote must be, stated over the set of coins it takes. *)

worth(S) == SumFunctionOnSet(Value, S)

\* Half sats the Operator charges for spending S to the given outputs.
Charge(S, outputs) ==
    SumFunctionOnSet(fees.input, S) + SumOver(outputs, fees.output)

\* solveVtxoSpendWithBudget: inputs equal recipient, fee and change to the sat;
\* the fee is within the vault's cap and is the least whole number of sats that
\* covers what the Operator charges for exactly this transaction; the change is
\* absent or above dust; at most MaxInputs coins are spent.
PaysExactly ==
    pc = "done" /\ outcome.ok =>
        LET S == Range(outcome.picked)
            outputs == IF outcome.change = 0 THEN <<amount>> ELSE <<amount, outcome.change>>
        IN  /\ worth(S) = amount + outcome.fee + outcome.change
            /\ outcome.fee <= FeeCap
            /\ 2 * outcome.fee >= Charge(S, outputs)
            /\ 2 * (outcome.fee - 1) < Charge(S, outputs)
            /\ outcome.change = 0 \/ outcome.change >= Dust
            /\ Cardinality(S) \in 1..MaxInputs

\* SpendableVtxos, CanonicalVtxoBundleInputs: although the list moves between
\* two page requests, no coin is spent twice by a quote, none was listed as
\* spent, and each is worth more than its own input costs.
EachCoinOnce ==
    pc = "done" /\ outcome.ok =>
        /\ Cardinality(Range(outcome.picked)) = Len(outcome.picked)
        /\ \A c \in Range(outcome.picked) :
               /\ Entry(c) \in Range(all)
               /\ 2 * Value[c] > fees.input[c]

FlatOutputs == \A x, y \in DOMAIN fees.output : fees.output[x] = fees.output[y]

\* selectSpendVtxos: under a fee program that does not look at output amounts,
\* a spend is refused for lack of funds only if not even all the coins it may
\* use leave a change above dust after a fee within the cap.
AmpleFundsServed ==
    outcome = Refused("insufficient") /\ FlatOutputs =>
        \A S \in SUBSET Range(spendable) :
            LET fee == ceilDiv(Charge(S, <<amount, Dust>>), 2)
            IN  /\ Cardinality(S) <= MaxInputs
                /\ \A c \in Range(spendable) :
                       c \in S <=> Value[c] > ceilDiv(fees.input[c], 2)
                /\ fee <= FeeCap
                => worth(S) < amount + fee + Dust
=============================================================================
