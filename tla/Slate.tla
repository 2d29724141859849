------------------------------- MODULE Slate -------------------------------
(***************************************************************************)
(* The slate: which coins a payment takes and what fee it pays              *)
(* (libwallet/src/internal/selection.rs), the rounds in which the two        *)
(* wallets build and sign one transaction (libwallet/src/slate.rs), and the  *)
(* versions in which a slate travels (libwallet/src/slate_versions).         *)
(*                                                                          *)
(* Cryptography is symbolic.  A key is known by the inputs and outputs whose *)
(* blinding factors it sums, and by whether the kernel offset was taken out   *)
(* of it; a signature by the keys and the kernel it was made over.  An Option *)
(* is a sequence of at most one element.                                      *)
(***************************************************************************)
EXTENDS Integers, Sequences, FiniteSets, SequencesExt

CONSTANT BaseFee      \* fee per unit of weight
ASSUME BaseFeeAssumption == BaseFee \in Nat \ {0}

None == <<>>
Some(x) == <<x>>
IsSome(o) == o # None
Get(o) == o[1]

\* The total of the coins at the indexes I, and of a sequence of amounts.
SumOf(coins, I) ==
    LET upTo[i \in 0 .. Len(coins)] ==
            IF i = 0 THEN 0 ELSE upTo[i - 1] + (IF i \in I THEN coins[i] ELSE 0)
    IN  upTo[Len(coins)]
SumSeq(s) == SumOf(s, DOMAIN s)

-----------------------------------------------------------------------------
(* Coin selection.  coins is the sequence of the eligible outputs' values in   *)
(* ascending order; a selection is a sequence of its indexes.                  *)

TxFee(inputs, outputs, kernels) ==
    LET weight == 4 * outputs + kernels - inputs
    IN  BaseFee * (IF weight < 1 THEN 1 ELSE weight)

SelectFrom(coins, amount, useAll, outs) ==
    LET before(i) == SumOf(coins, {outs[j] : j \in 1 .. (i - 1)})
    IN  IF SumOf(coins, ToSet(outs)) < amount THEN None
        ELSE IF useAll THEN Some(outs)
        ELSE Some(SubSeq(outs, 1, Cardinality({i \in DOMAIN outs : before(i) < amount})))

\* The code shifts a window of max_outputs coins from the small ones to the large ones;
\* max_outputs is a soft limit, given up when no window is worth enough.
SelectCoins(coins, amount, max, useAll) ==
    LET all == [i \in DOMAIN coins |-> i]
        window(i) == SubSeq(all, i, i + max - 1)
        enough == {i \in 1 .. (Len(coins) - max + 1) : SumOf(coins, ToSet(window(i))) >= amount}
        first == CHOOSE i \in enough : \A j \in enough : i <= j
        found == IF Len(coins) <= max THEN SelectFrom(coins, amount, useAll, all)
                 ELSE IF enough # {} THEN SelectFrom(coins, amount, useAll, window(first))
                 ELSE SelectFrom(coins, amount, FALSE, all)
    IN  IF IsSome(found) THEN Get(found)
        ELSE SubSeq(Reverse(all), 1, IF max < Len(all) THEN max ELSE Len(all))

\* n - 1 equal outputs and a last one with the remainder, which the code takes modulo one
\* part instead of modulo n.  None: the division by zero, when there are more outputs than
\* there is change.
ChangeAmounts(change, n) ==
    IF change = 0 THEN Some(<<>>)
    ELSE IF n = 0 \/ change < n THEN None
    ELSE LET part == change \div n
         IN  Some([i \in 1 .. n |-> IF i = n THEN part + (change % part) ELSE part])

\* When the amounts above add up to the change.
SplitsEvenly(change, n) ==
    \/ change = 0
    \/ n > 0 /\ change >= n /\ SumSeq(Get(ChangeAmounts(change, n))) = change

-----------------------------------------------------------------------------
(* The transaction and its participants                                       *)

NoKey == [ins |-> {}, change |-> <<>>, pay |-> None, split |-> FALSE]

BlankTx == [ins |-> {}, change |-> <<>>, pay |-> None, fee |-> 0, offset |-> FALSE]
Blank(amount, ttl) ==
    [amount |-> amount, fee |-> 0, ttl |-> ttl, tx |-> BlankTx, parts |-> <<>>,
     proof |-> None, version |-> 3, orig |-> 3]

UpdateKernelLater(s) == s
\* The kernel takes the slate's fee before the elements are added.
UpdateKernel(s) == [s EXCEPT !.tx.fee = s.fee]

AddInputs(s, ins, change) ==
    [UpdateKernel(s) EXCEPT !.tx.ins = ins, !.tx.change = change]
AddOutput(s) == [UpdateKernel(s) EXCEPT !.tx.pay = Some(s.amount)]

\* Whoever comes first generates the offset and takes it out of its own key.
GenerateOffset(s, key) == [key EXCEPT !.split = ~s.tx.offset]

AddParticipantInfo(s, id, key) ==
    [s EXCEPT !.parts = Append(@, [id |-> id, key |-> key, sig |-> None])]

FillRound1(s, id, key) ==
    [AddParticipantInfo(s, id, GenerateOffset(s, key)) EXCEPT !.tx.offset = TRUE]

\* The entry of a participant; each wallet adds its own once.
Participant(s, id) == s.parts[CHOOSE i \in DOMAIN s.parts : s.parts[i].id = id]
IsComplete(p) == IsSome(p.sig)

PubKeySum(s) == {p.key : p \in ToSet(s.parts)}
MsgToSign(s) == s.fee

CheckFees(s) ==
    LET fee == TxFee(Cardinality(s.tx.ins), Len(s.tx.change) + Len(s.tx.pay), 1)
    IN  fee <= s.tx.fee /\ fee <= s.amount + s.fee

VerifyPartSigs(s) ==
    \A p \in ToSet(s.parts) :
        IsComplete(p) => Get(p.sig) = [by |-> p.key, keys |-> PubKeySum(s), msg |-> MsgToSign(s)]

CanFillRound2(s) == CheckFees(s) /\ VerifyPartSigs(s)
FillRound2(s, id, key) ==
    LET sig == [by |-> key, keys |-> PubKeySum(s), msg |-> MsgToSign(s)]
        signed(p) == IF p.id = id THEN [p EXCEPT !.sig = Some(sig)] ELSE p
    IN  [s EXCEPT !.parts = [i \in DOMAIN s.parts |-> signed(s.parts[i])]]

\* The commitments of the transaction, with the offset subtracted: what the kernel's key
\* must be.
CalcExcess(s) == [ins |-> s.tx.ins, change |-> s.tx.change, pay |-> s.tx.pay,
                  fee |-> s.tx.fee]

FinalizeSignature(s) ==
    VerifyPartSigs(s) /\ \A p \in ToSet(s.parts) : IsComplete(p)

\* The keys sum up the blinding factors of exactly the transaction's elements, the offset
\* is in one of them, and no value is left over (coins: the payer's eligible outputs).
KernelVerifies(s, coins) ==
    LET keys == PubKeySum(s)
    IN  /\ s.tx.ins = UNION {k.ins : k \in keys}
        /\ {k.change : k \in keys} \ {<<>>} = {s.tx.change} \ {<<>>}
        /\ {k.pay : k \in keys} \ {None} = {s.tx.pay} \ {None}
        /\ Cardinality({k \in keys : k.split}) = 1
        /\ SumOf(coins, s.tx.ins) = SumSeq(s.tx.change) + SumSeq(s.tx.pay) + s.tx.fee

CanFinalize(s, coins) == FinalizeSignature(s) /\ CheckFees(s) /\ KernelVerifies(s, coins)

-----------------------------------------------------------------------------
(* Versions.  fmt is the layout of the JSON text, version and orig the fields   *)
(* of its version_info, which the conversions copy.                             *)

LayoutV2 == {"fmt", "amount", "fee", "parts", "tx", "version", "orig"}
LayoutV3 == LayoutV2 \cup {"ttl", "proof"}     \* ttl_cutoff_height, payment_proof

SlateToV3(s) == [f \in LayoutV3 |-> IF f = "fmt" THEN 3 ELSE s[f]]
V3ToSlate(v) == [f \in LayoutV3 \ {"fmt"} |-> v[f]]

V3ToV2(v) == [f \in LayoutV2 |-> IF f = "fmt" THEN 2 ELSE v[f]]
V2ToV3(v) == [f \in LayoutV3 |-> IF f = "fmt" THEN 3
                                ELSE IF f \in LayoutV2 THEN v[f] ELSE None]

IntoVersion(s, n) == IF n = 3 THEN SlateToV3(s) ELSE V3ToV2(SlateToV3(s))
FromVersioned(w) == IF w.fmt = 3 THEN V3ToSlate(w) ELSE V3ToSlate(V2ToV3(w))

\* The text is parsed in the layout its version field names: layout 2 lacks a field that
\* layout 3 requires, what layout 3 adds is skipped when it is read as layout 2.
DeserializeUpgrade(w) ==
    CASE w.version = 3 /\ w.fmt = 3 -> Some(V3ToSlate(w))
      [] w.version = 3 /\ w.fmt = 2 -> None
      [] w.version = 2              -> Some(V3ToSlate(V2ToV3(w)))

\* Serialize for Slate, used by keybase: the layout of orig_version.
Serialize(s) == IntoVersion(s, s.orig)

\* Files and emoji strings.
PutTx(s) ==
    IF IsSome(s.proof) \/ IsSome(s.ttl) THEN IntoVersion(s, 3)
    ELSE IntoVersion([s EXCEPT !.version = 2, !.orig = 2], 2)
=============================================================================
