------------------------------ MODULE Contracts ------------------------------
(* The period of a signal ("30s", "5m", "2 hours", "300") is read in five    *)
(* places, each with a list or a parser of its own: internal/order turns it  *)
(* into the contract that each platform is asked for, internal/signals looks *)
(* up the odds of that contract, internal/settle waits for its end.  Here    *)
(* each gives the set of lengths, in seconds, that it takes a period for:    *)
(* one, or none when it does not know the period or passes on a text that    *)
(* the platform cannot read.                                                 *)
EXTENDS Integers

CONSTANT Numbers  \* the numbers that periods are given with

ASSUME NumbersAssumption == Numbers \subseteq Nat \ {0}

\* A period is a number and a unit, the unit in its shortest spelling or not;
\* or a bare number.
Period == {p \in [n : Numbers, unit : {"s", "m", "h", "none"}, long : BOOLEAN] :
              p.unit = "none" => ~p.long}

\* A switch over periods, which knows only the shortest spelling.
Listed(p, list) == {row[3] : row \in {r \in list : ~p.long /\ r[1] = p.n /\ r[2] = p.unit}}

-----------------------------------------------------------------------------
(* internal/order: the contract that is asked for.                           *)

BinanceIncrements ==
    {<<5, "m", 300>>, <<15, "m", 900>>, <<30, "m", 1800>>,
     <<1, "h", 3600>>, <<2, "h", 7200>>, <<4, "h", 14400>>}

\* binanceTimeIncrement: PlaceOrder refuses any other period.
BinanceTimeIncrement(p) == Listed(p, BinanceIncrements)

\* periodToSeconds: TurboFlow's duration. A bare number goes out as it is.
PeriodToSeconds(p) == {CASE p.unit = "m" -> p.n * 60
                         [] p.unit = "h" -> p.n * 3600
                         [] OTHER -> p.n}

\* periodToMinutes: HiBT's timeUnit, in minutes (60 seconds each). A bare number goes
\* out as it is; so do seconds that are not whole minutes, with their unit, except for
\* two that have fractions of their own.
PeriodToMinutes(p) ==
    LET minutes == CASE p.unit = "h" -> p.n * 60
                     [] p.unit = "s" -> p.n \div 60
                     [] OTHER -> p.n
    IN  IF p.unit = "s" /\ p.n % 60 # 0
        THEN Listed(p, {<<30, "s", 30>>, <<45, "s", 45>>})
        ELSE {minutes * 60}

-----------------------------------------------------------------------------
(* The odds to look at, and the end to wait for.                             *)

\* periodSeconds of the processor: there are never any odds for another period.
PeriodSeconds(p) ==
    Listed(p, {<<30, "s", 30>>, <<45, "s", 45>>, <<1, "m", 60>>, <<3, "m", 180>>,
               <<5, "m", 300>>, <<10, "m", 600>>, <<15, "m", 900>>, <<30, "m", 1800>>,
               <<1, "h", 3600>>, <<2, "h", 7200>>, <<4, "h", 14400>>})

MaxSettleSeconds == 4 * 3600

Settles ==
    {<<30, "s", 30>>, <<45, "s", 45>>, <<1, "m", 60>>, <<3, "m", 180>>, <<5, "m", 300>>,
     <<10, "m", 600>>, <<15, "m", 900>>, <<30, "m", 1800>>, <<1, "h", 3600>>,
     <<2, "h", 7200>>, <<4, "h", 14400>>}

SettlesWithin(p, list) == IF Listed(p, list) = {} THEN {MaxSettleSeconds} ELSE Listed(p, list)

\* Mutant of PeriodDuration: its list lacks two hours.
WithoutTwoHours(p) == SettlesWithin(p, Settles \ {<<2, "h", 7200>>})

\* periodDuration of the settlement service.
PeriodDuration(p) == SettlesWithin(p, Settles)

-----------------------------------------------------------------------------
(* Properties.                                                               *)

SecondsOf(unit) == CASE unit = "s" -> 1 [] unit = "m" -> 60 [] unit = "h" -> 3600

Contracts(p) == BinanceTimeIncrement(p) \cup PeriodToSeconds(p) \cup PeriodToMinutes(p)

\* A period with a unit is the same contract on every platform that can read it, as long
\* as it says ("never silently mapped onto a longer contract by mistake").  A bare number
\* is not: TurboFlow takes it for seconds, HiBT for minutes, Binance refuses it.
AsNamed(p) ==
    Contracts(p) = IF p.unit = "none" THEN {p.n, 60 * p.n} ELSE {p.n * SecondsOf(p.unit)}

\* A Binance order is waited for exactly until its contract ends: not shorter, or an
\* open order would be shown as lost, nor longer.
SettledAtItsEnd(p) == BinanceTimeIncrement(p) \in {{}, PeriodDuration(p)}

\* Whatever odds make a waiting order go out are those of the contract it asks for.
OddsOfTheContract(p) == PeriodSeconds(p) \in {{}, PeriodToSeconds(p)}

\* The periods that are read in other ways.
Misunderstood == {p \in Period : ~(AsNamed(p) /\ SettledAtItsEnd(p) /\ OddsOfTheContract(p))}

\* The five readers of a period agree on the contract, but for the platforms a bare number
\* goes out to: none asks for another length than the period says, waits for another end,
\* or looks at the odds of another contract.
ReadersDifferOnBareNumbers == Misunderstood = {}
=============================================================================
