----------------------------- MODULE PokerTable -----------------------------
(***************************************************************************)
(* One table of no-limit hold'em, hand after hand (internal/poker/table.go *)
(* Table).  The cards are abstracted to the order of the hands they make:  *)
(* "strength" is what evaluate and compare see at the showdown.            *)
(***************************************************************************)
EXTENDS Integers, FiniteSets, FiniteSetsExt, Functions

CONSTANTS
  N,                     \* number of players
  SmallBlind, BigBlind,  \* 10 and 20 in the code
  Stacks,                \* chips the players may bring to the first hand
  MaxHands               \* bound on the hands played

Seats == 0 .. N - 1

ASSUME SeatsAtTable == N \in Nat \ {0, 1}
ASSUME BlindsAreOrdered == /\ SmallBlind \in Nat /\ BigBlind \in Nat
                           /\ 0 < SmallBlind /\ SmallBlind <= BigBlind
ASSUME StacksAreChips == Stacks \subseteq [Seats -> Nat]
ASSUME HandsAreBounded == MaxHands \in Nat

VARIABLE table

Phases == {"idle", "preflop", "flop", "turn", "river", "done"}
Nobody == -1

\* Every way the hands of the players in S can rank: a weak order, as dense levels.
Rankings(S) == {s \in [Seats -> Seats] :
                  \A i \in Seats : s[i] > 0 => i \in S /\ \E j \in S : s[j] = s[i] - 1}
NoShowdown == [i \in Seats |-> 0]

Table == [phase : Phases, hand : Nat, dealer : Seats \cup {Nobody}, actor : Seats \cup {Nobody},
          pot : Nat, lastPot : Nat, currentBet : Nat, lastRaise : Nat,
          pending : SUBSET Seats, folded : SUBSET Seats,
          chips : [Seats -> Nat], bet : [Seats -> Nat], total : [Seats -> Nat],
          lastBet : [Seats -> Nat \cup {-1}], payouts : [Seats -> Nat],
          strength : [Seats -> Seats]]

TypeOK == table \in Table

Sum(f) == SumFunctionOnSet(f, Seats)
Smaller(a, b) == IF a < b THEN a ELSE b
Larger(a, b) == IF a < b THEN b ELSE a

-----------------------------------------------------------------------------
(* Helpers *)

Live(t) == Seats \ t.folded
CanAct(t) == {i \in Live(t) : t.chips[i] > 0}
Playing(t) == t.phase \notin {"idle", "done"}

\* How far seat i is from the one after "from", clockwise.
Distance(from, i) == (i - from - 1) % N

\* The first of S after "from", or Nobody.
NextOf(from, S) ==
  IF S = {} THEN Nobody
  ELSE CHOOSE i \in S : \A j \in S : Distance(from, i) <= Distance(from, j)

\* Faulty variants, each named for its fault, stand before what they vary; no
\* specification uses them.
PayOnCredit(t, i, amount) ==
  [t EXCEPT !.chips[i] = @ - amount, !.bet[i] = @ + amount, !.total[i] = @ + amount,
            !.pot = @ + amount]

Pay(t, i, amount) ==
  LET paid == Smaller(t.chips[i], amount)
  IN  [t EXCEPT !.chips[i] = @ - paid, !.bet[i] = @ + paid, !.total[i] = @ + paid,
                !.pot = @ + paid]

-----------------------------------------------------------------------------
(* Settlement *)

Contributors(t, level) == {j \in Seats : t.total[j] >= level}

EligibleLive(t, level) == Live(t)
Eligible(t, level) == Contributors(t, level) \cap Live(t)

\* The indivisible rest of a layer goes to the winners one by one, clockwise
\* from the dealer.
OddChip(rank, amount, size) == IF rank < amount % size THEN 1 ELSE 0

\* What seat i gets of the pot layer between two adjacent totals.
LayerShare(t, showdown, previous, level, i) ==
  LET contributors == Contributors(t, level)
      eligible == Eligible(t, level)
      winners == {j \in eligible : showdown => \A k \in eligible : t.strength[k] <= t.strength[j]}
      amount == (level - previous) * Cardinality(contributors)
      size == Cardinality(winners)
      rank == Cardinality({j \in winners : Distance(t.dealer, j) < Distance(t.dealer, i)})
  IN  IF i \in winners THEN amount \div size + OddChip(rank, amount, size)
      ELSE IF eligible = {} /\ i \in contributors THEN amount \div Cardinality(contributors)
      ELSE 0

Levels(t) == {t.total[i] : i \in Seats} \ {0}

Payouts(t, showdown) ==
  [i \in Seats |->
     SumFunction([level \in Levels(t) |->
       LayerShare(t, showdown, Max({0} \cup {l \in Levels(t) : l < level}), level, i)])]

FinishKeepingPot(t, showdown) ==
  LET payouts == Payouts(t, showdown)
  IN  [t EXCEPT !.payouts = payouts, !.lastPot = t.pot, !.actor = Nobody, !.phase = "done",
                !.chips = [i \in Seats |-> t.chips[i] + payouts[i]]]

FinishKeepingTurn(t, showdown) ==
  LET payouts == Payouts(t, showdown)
  IN  [t EXCEPT !.payouts = payouts, !.lastPot = t.pot, !.pot = 0, !.phase = "done",
                !.chips = [i \in Seats |-> t.chips[i] + payouts[i]]]

\* finish; without a showdown the hands stay hidden (NoShowdown).
Finish(t, showdown) ==
  LET payouts == Payouts(t, showdown)
  IN  [t EXCEPT !.payouts = payouts,
                !.lastPot = t.pot,
                !.chips = [i \in Seats |-> t.chips[i] + payouts[i]],
                !.pot = 0, !.actor = Nobody, !.phase = "done"]

-----------------------------------------------------------------------------
(* The course of a hand *)

NextPhase == [preflop |-> "flop", flop |-> "turn", turn |-> "river"]

NewStreet(t) ==
  [t EXCEPT !.currentBet = 0, !.lastRaise = BigBlind,
            !.bet = [i \in Seats |-> 0], !.lastBet = [i \in Seats |-> -1],
            !.pending = CanAct(t)]

\* The showdown: every way the hands still held can rank.
Shown(t) == {Finish([t EXCEPT !.pending = {}, !.strength = ranks], TRUE) : ranks \in Rankings(Live(t))}

\* What advance can make of the table, with the streets on which nobody can act
\* run out at once: there the code recurses until the river.
Advance(t, from) ==
  LET able    == CanAct(t)
      settled == able = {} \/ \E i \in able : able = {i} /\ t.bet[i] >= t.currentBet
      waiting == IF settled THEN {} ELSE t.pending \cap able
  IN  IF Cardinality(Live(t)) = 1 THEN {Finish(t, FALSE)}
      ELSE IF waiting # {}
        THEN {[t EXCEPT !.pending = waiting, !.actor = NextOf(from, waiting)]}
      ELSE IF t.phase = "river" THEN Shown(t)
      ELSE IF Cardinality(able) < 2 THEN Shown(NewStreet(t))
      ELSE {[NewStreet(t) EXCEPT !.phase = NextPhase[t.phase], !.actor = NextOf(t.dealer, able)]}

\* The table with cards dealt, the dealer moved on and the blinds paid.
Dealt(t) ==
  LET alive  == {i \in Seats : t.chips[i] > 0}
      dealer == NextOf(t.dealer, alive)
      small  == IF Cardinality(alive) > 2 THEN NextOf(dealer, alive) ELSE dealer
      big    == NextOf(small, alive)
      fresh  == [t EXCEPT !.hand = @ + 1, !.phase = "preflop", !.dealer = dealer,
                          !.pot = 0, !.payouts = [i \in Seats |-> 0],
                          !.bet = [i \in Seats |-> 0], !.total = [i \in Seats |-> 0],
                          !.lastBet = [i \in Seats |-> -1], !.folded = Seats \ alive,
                          !.currentBet = BigBlind, !.lastRaise = BigBlind,
                          !.strength = NoShowdown]
      paid   == Pay(Pay(fresh, small, SmallBlind), big, BigBlind)
  IN  [table |-> [paid EXCEPT !.pending = CanAct(paid)], big |-> big]

Solvent(t) == {i \in Seats : t.chips[i] > 0}

Start ==
  /\ ~Playing(table)
  /\ Cardinality(Solvent(table)) >= 2
  /\ table.hand < MaxHands
  /\ LET dealt == Dealt(table)
     IN  table' \in Advance(dealt.table, dealt.big)

\* options of the player to act
CallAmount(t) == Smaller(Larger(0, t.currentBet - t.bet[t.actor]), t.chips[t.actor])
MaxBet(t) == t.bet[t.actor] + t.chips[t.actor]
MinRaise(t) == t.currentBet + t.lastRaise
CanRaiseWithoutChips(t) ==
  LET last == t.lastBet[t.actor]
  IN  /\ CanAct(t) \ {t.actor} # {}
      /\ last < 0 \/ t.currentBet - last >= t.lastRaise

CanRaise(t) ==
  LET last == t.lastBet[t.actor]
  IN  /\ CanAct(t) \ {t.actor} # {}
      /\ MaxBet(t) > t.currentBet
      /\ last < 0 \/ t.currentBet - last >= t.lastRaise

LegalRaise(t, amount) ==
  /\ CanRaise(t)
  /\ t.currentBet < amount /\ amount <= MaxBet(t)
  /\ amount >= MinRaise(t) \/ amount = MaxBet(t)

RaisedUnanswered(t, amount) ==
  LET paid == Pay(t, t.actor, amount - t.bet[t.actor])
  IN  [paid EXCEPT !.lastRaise = Larger(@, amount - t.currentBet), !.currentBet = amount]

Raised(t, amount) ==
  LET paid == Pay(t, t.actor, amount - t.bet[t.actor])
      size == amount - t.currentBet
  IN  [paid EXCEPT !.lastRaise = Larger(@, size),
                   !.currentBet = amount,
                   !.pending = @ \cup {j \in CanAct(paid) \ {t.actor} : paid.bet[j] < amount}]

ActedAgain(t) == Advance([t EXCEPT !.lastBet[t.actor] = t.currentBet], t.actor)

\* The end of act: the player has acted and the hand goes on.
Acted(t) ==
  Advance([t EXCEPT !.lastBet[t.actor] = t.currentBet, !.pending = @ \ {t.actor}], t.actor)

Raise(amount) ==
  /\ Playing(table)
  /\ LegalRaise(table, amount)
  /\ table' \in Acted(Raised(table, amount))

Call ==
  /\ Playing(table)
  /\ table' \in Acted(Pay(table, table.actor, CallAmount(table)))

Fold ==
  /\ Playing(table)
  /\ table' \in Acted([table EXCEPT !.folded = @ \cup {table.actor}])

Init == table \in {[phase |-> "idle", hand |-> 0, dealer |-> Nobody, actor |-> Nobody,
                    pot |-> 0, lastPot |-> 0, currentBet |-> 0, lastRaise |-> 0,
                    pending |-> {}, folded |-> {}, chips |-> stacks,
                    bet |-> [i \in Seats |-> 0], total |-> [i \in Seats |-> 0],
                    lastBet |-> [i \in Seats |-> 0], payouts |-> [i \in Seats |-> 0],
                    strength |-> NoShowdown] : stacks \in Stacks}

Act == \/ \E amount \in 1 .. Sum(table.chips) + table.pot : Raise(amount)
       \/ Call
       \/ Fold

Next == Start \/ Act

Spec == Init /\ [][Next]_table

-----------------------------------------------------------------------------
(* Properties *)

\* Only players who can still act are waited for, one of them is to act, and
\* whoever is not waited for has matched the bet, is all in, or is out.
BettingIsCoherent ==
  IF Playing(table)
  THEN /\ table.actor \in table.pending
       /\ table.pending \subseteq CanAct(table)
       /\ Cardinality(Live(table)) >= 2
       /\ \A i \in CanAct(table) \ table.pending : table.bet[i] = table.currentBet
       /\ \A i \in Seats : table.bet[i] <= table.currentBet
  ELSE table.actor = Nobody /\ table.pot = 0

\* The pot is what the players have put in, of this street at most what they
\* have put in altogether, and settling pays it out to the last chip.
PotIsAccountedFor ==
  /\ Playing(table) => /\ table.pot = Sum(table.total)
                       /\ \A i \in Seats : table.bet[i] <= table.total[i]
  /\ table.phase = "done" => Sum(table.payouts) = table.lastPot

\* Side pots: nobody gets from another player more than he himself has put in;
\* who has folded gets back only what no player left could match; the best
\* hand, when it is alone, gets all it can.
Covered(i) == Sum([j \in Seats |-> Smaller(table.total[i], table.total[j])])
SidePotsAreFair ==
  table.phase = "done" =>
    /\ \A i \in Live(table) : table.payouts[i] <= Covered(i)
    /\ \A i \in table.folded \cap {i \in Seats : table.total[i] > 0} :
         table.payouts[i] = Larger(0, table.total[i] - Max({table.total[j] : j \in Live(table)}))
    /\ \A i \in Live(table) :
         (\A j \in Live(table) \ {i} : table.strength[j] < table.strength[i]) =>
           table.payouts[i] = Covered(i)

\* A hand's chips end where they belong: none is lost or paid twice on the way
\* into the pot and out of it, and none goes to a player who did not match it
\* (pay, finish).
PotIsSettledFairly == PotIsAccountedFor /\ SidePotsAreFair

\* A bot that wants to raise is never refused, whatever target it aims at:
\* a refusal would repeat at every tick and stop the table (botAction).
BotsAreNeverRefused ==
  Playing(table) /\ CanRaise(table) =>
    \A target \in 0 .. MaxBet(table) + BigBlind :
      LegalRaise(table, Smaller(MaxBet(table), Larger(MinRaise(table), target)))

\* Chips move between the players and the pot; none appears or disappears.
ChipsAreConserved == [][Sum(table'.chips) + table'.pot = Sum(table.chips) + table.pot]_table

\* To the service the table is a hand that somebody with chips moves on until
\* it is done (PokerHand).
Staked(i) == table.chips[i] + (IF Playing(table) THEN table.total[i] ELSE 0)
Hand == INSTANCE PokerHand WITH
  hand <- [status  |-> IF Playing(table) THEN "playing" ELSE table.phase,
           actor   |-> table.actor,
           solvent |-> {i \in Seats : Staked(i) > 0}]

IsAHand == Hand!Spec

\* Every move of a hand brings its end nearer, so that no player can keep it
\* going for ever: it ends the hand or the street, or leaves fewer chips to bet
\* with, or leaves fewer players to wait for (act, advance).
StreetsLeft(t) == CASE t.phase = "preflop" -> 4 [] t.phase = "flop" -> 3
                    [] t.phase = "turn" -> 2 [] t.phase = "river" -> 1 [] OTHER -> 0
HandsShorten ==
  [][LET streets == StreetsLeft(table') - StreetsLeft(table)
         behind  == Sum(table'.chips) - Sum(table.chips)
     IN  Playing(table) =>
           \/ streets < 0
           \/ streets = 0 /\ behind < 0
           \/ streets = 0 /\ behind = 0 /\ Cardinality(table'.pending) < Cardinality(table.pending)]_table
=============================================================================
