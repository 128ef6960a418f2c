-------------------------------- MODULE Fees --------------------------------
(***************************************************************************)
(* The fee breakdown of a payment: the amount is converted to the currency *)
(* the gateway charges in, the service fee is computed so that the gateway *)
(* may take its percentage of the whole, and a fixed charge is added.      *)
(*                                                                         *)
(* A float is a fraction <<n, d>>. Floating point is visible where a value *)
(* is rounded up: one that is exactly whole may be computed slightly above *)
(* and rounded to the next.                                                *)
(***************************************************************************)
EXTENDS Naturals, Sequences

plus(x, y) ==
    IF x[2] % y[2] = 0 THEN <<x[1] + y[1] * (x[2] \div y[2]), x[2]>>
    ELSE <<x[1] * y[2] + y[1] * x[2], x[2] * y[2]>>
times(x, y) == <<x[1] * y[1], x[2] * y[2]>>
atMost(x, y) == x[1] * y[2] <= y[1] * x[2]

(* math.Ceil of a constant, and of the result of a computation.              *)
ceil(x) == (x[1] + x[2] - 1) \div x[2]
ceilings(x) == {ceil(x)} \cup (IF x[1] > 0 /\ x[1] % x[2] = 0 THEN {ceil(x) + 1} ELSE {})

(* A rate has a markup in percent and a fixed one.                           *)
effective(r) == plus(times(r.rate, <<100 + r.pct, 100>>), r.fixed)

applyExchangeRate(x, r) == times(effective(r), x)

(* The fee is what must be added for the ratio (in percent) to be taken of   *)
(* the sum: x / (1 - ratio / 100) - x.                                       *)
computeServiceFeeOnTop(x, ratio) == times(x, <<ratio, 100>>)

computeServiceFee(x, ratio) ==
    IF ratio <= 0 \/ ratio >= 100 THEN <<0, 1>> ELSE times(x, <<ratio, 100 - ratio>>)

findRate(rates, from, to) ==
    LET matching == {i \in DOMAIN rates : rates[i].from = from /\ rates[i].to = to}
    IN IF matching = {} THEN <<>> ELSE <<rates[CHOOSE i \in matching : \A j \in matching : i <= j]>>

(* Without a reverse rate the amount is shown as it is.                      *)
convertBack(x, rates, from, to) ==
    LET r == findRate(rates, from, to) IN IF r = <<>> THEN x ELSE applyExchangeRate(x, r[1])

breakdown(amount, currency, serviceFee, fixedCharge, gateway) ==
    [summary |-> [amount |-> amount, fees |-> serviceFee + fixedCharge,
                  total |-> amount + serviceFee + fixedCharge, currency |-> currency],
     fees |-> [serviceFee |-> serviceFee, fixedCharge |-> fixedCharge,
               total |-> serviceFee + fixedCharge],
     gateway |-> gateway]

calculateSameCurrency(amount, currency, fixedCharge, ratio) ==
    {breakdown(amount, currency, s, ceil(fixedCharge),
               [amount |-> amount + s + ceil(fixedCharge), currency |-> currency]) :
       s \in ceilings(computeServiceFee(<<amount, 1>>, ratio))}

(* The breakdowns a call may return; none when a rate is missing.            *)
Calculate(amount, currency, charges, fixedCharge, ratio, rates) ==
    LET rate == findRate(rates, currency, charges)
        base == applyExchangeRate(<<amount, 1>>, rate[1])
        serviceFee == computeServiceFee(base, ratio)
        gatewayTotal == plus(plus(serviceFee, base), fixedCharge)
        back(x) == convertBack(x, rates, charges, currency)
    IN IF currency = charges THEN calculateSameCurrency(amount, currency, fixedCharge, ratio)
       ELSE IF rate = <<>> THEN {}
       ELSE {breakdown(amount, currency, s, f, [amount |-> g, currency |-> charges]) :
               s \in ceilings(back(serviceFee)), f \in ceilings(back(fixedCharge)),
               g \in ceilings(gatewayTotal)}

Validate(b) ==
    /\ b.summary.amount > 0 /\ b.gateway.amount > 0
    /\ b.summary.fees = b.fees.total
    /\ b.fees.total = b.fees.serviceFee + b.fees.fixedCharge
    /\ b.summary.total = b.summary.amount + b.summary.fees
    /\ b.gateway.currency = b.summary.currency => b.gateway.amount = b.summary.total

-----------------------------------------------------------------------------
(* What ProcessGatewayInitiate asks the gateway for: the breakdown's amount; *)
(* the payment's own when the breakdown does not add up, which is logged;    *)
(* nothing when a rate is missing, and the payment stays PENDING.            *)
Currencies == {"usd", "iqd"}
Rates ==
    <<[from |-> "usd", to |-> "iqd", rate |-> <<3, 1>>, pct |-> 50, fixed |-> <<1, 10>>],
      [from |-> "iqd", to |-> "usd", rate |-> <<1, 3>>, pct |-> 20, fixed |-> <<0, 1>>]>>

Payments ==
    [amount : 1 .. 25, ratio : {0, 1, 3, 20, 50, 99}, fixedCharge : {<<0, 1>>, <<1, 1>>, <<5, 1>>},
     from : Currencies, to : Currencies, rates : {Rates, SubSeq(Rates, 1, 1)}]

VARIABLES
    payment,    \* the payment to be initiated, with its gateway's fee model and rates
    charge      \* what the gateway is asked for: nothing yet or at all, or an amount

feeVars == <<payment, charge>>

FeesInit == payment \in Payments /\ charge = <<>>

ChargeFees ==
    LET p == payment
    IN  /\ charge = <<>>
        /\ \E b \in Calculate(p.amount, p.from, p.to, p.fixedCharge, p.ratio, p.rates) :
              charge' = IF Validate(b) THEN <<b.gateway>>
                        ELSE <<[amount |-> p.amount, currency |-> p.from]>>
        /\ UNCHANGED payment

-----------------------------------------------------------------------------
(* What the gateway is asked for is in the currency it charges in, leaves    *)
(* the whole amount once it has taken its percentage and the fixed charge,   *)
(* and the payer is never asked for two units more than that takes: whatever *)
(* is rounded where, however the floats fall, and whether or not there is a  *)
(* rate back (fees.go:75-192, service.go:169-219).                           *)
FeesCover ==
    LET p == payment
        base == IF p.from = p.to THEN <<p.amount, 1>>
                ELSE applyExchangeRate(<<p.amount, 1>>, findRate(p.rates, p.from, p.to)[1])
        left(total) == times(<<total, 1>>, <<100 - p.ratio, 100>>)
        needed == plus(base, times(p.fixedCharge, <<100 - p.ratio, 100>>))
    IN  charge # <<>> =>
          LET asked == charge[1]
          IN  /\ asked.currency = p.to
              /\ atMost(needed, left(asked.amount))
              /\ asked.amount > 2 => ~atMost(needed, left(asked.amount - 2))
=============================================================================
