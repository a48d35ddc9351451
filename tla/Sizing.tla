------------------------------- MODULE Sizing -------------------------------
(***************************************************************************)
(* RealmSizing.CalculateResourceLimits: the CPU of one instance, in        *)
(* thousandths of a core, from the load that all instances share.  The code*)
(* computes with floating point numbers: a sum of fractions that should be *)
(* a whole number may come out just below it, and the conversion to int64  *)
(* then truncates to the number before.                                    *)
(***************************************************************************)
EXTENDS Integers

CONSTANT Rates   \* rates per second that users ask for, of type int32

Sizes == [logins: Rates, clients: Rates, refreshes: Rates,
          unlimited: BOOLEAN]

\* A missing number of instances is 0.
Inst(instances) == IF instances > 0 THEN instances ELSE 1

Positive(rate) == IF rate > 0 THEN rate ELSE 0

\* In units of 1/120 core: a login costs 1/15 core, the others 1/120.
Load(size) == 8 * Positive(size.logins)
              + Positive(size.clients) + Positive(size.refreshes)

\* int64(x) for a floating point x that stands for num / den.
Int64(num, den) == {num \div den} \cup
    IF num > 0 /\ num % den = 0 THEN {num \div den - 1} ELSE {}

CalculateForOneInstance(size, instances) ==
    [request: Int64(1000 * Load(size), 120),
     limit: Int64(2500 * Load(size), 120),
     limited: {~size.unlimited}]

\* The requests and limits that the computation may yield.
CalculateResourceLimits(size, instances) ==
    LET den == 120 * Inst(instances) IN
    [request: Int64(1000 * Load(size), den),
     limit: Int64(2500 * Load(size), den),
     limited: {~size.unlimited}]
=============================================================================
