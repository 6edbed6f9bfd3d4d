---------------------------- MODULE StockWinner ----------------------------
(***************************************************************************)
(* StockWinner: a user opens a file of prices, builds rules such as "if    *)
(* the price rose by 5 percent in 3 days AND ... THEN BUY 20 percent" in   *)
(* the form of GraphDialogController, and has them tried on the prices     *)
(* with a portfolio.  All of it runs on one thread; the loop that tries    *)
(* the rules, handleDoneButton, is taken apart into its rounds, during     *)
(* which the user can do nothing.                                          *)
(***************************************************************************)
EXTENDS Decimals, Sequences, SequencesExt

CONSTANTS
  Files,         \* lists of points [date, price], in the order of the file
  Days,          \* what the user may enter: days prior,
  Percents,      \*   percent of change,
  Shares,        \*   percent of funds or units, divided by 100,
  Funds,         \*   funds to begin with
  MaxStrategies  \* bound: conditions on the form

ASSUME FilesAssumption ==
  \A points \in Files : \A i \in DOMAIN points : points[i].price.unscaled >= 0
ASSUME FieldsAssumption ==    \* the pattern ^[0-9]+$; "00" passes for more than "0"
  /\ Days \subseteq Nat /\ Percents \subseteq Nat
  /\ \A share \in Shares : share.unscaled >= 0
  /\ MaxStrategies \in Nat

VARIABLES
  scene,         \* "files", "form", "running" (handleDoneButton), "results"
  pointList,
  strategyCompositeList, condList,      \* the rules, and the list the user sees
  condition, conditionOn, decisionOn,   \* chosen, enabled
  secondStrategy,
  funds, units, currPriceOfUnits,       \* the Portfolio
  day, next,                            \* the loops: a point, a rule; 0 is updateValue
  sellOrBuyAction,
  resultsPointsList

rules == <<strategyCompositeList, condList>>
fields == <<condition, conditionOn, decisionOn, secondStrategy>>
portfolio == <<funds, units, currPriceOfUnits>>
loops == <<day, next, sellOrBuyAction, resultsPointsList>>
vars == <<scene, pointList, rules, fields, portfolio, loops>>

Zero == Dec(0, 0)

\* The portfolio and the loops are local to handleDoneButton.
HandlerEnds ==
  /\ funds' = Zero /\ units' = Zero /\ currPriceOfUnits' = Zero
  /\ day' = 1 /\ next' = 0 /\ sellOrBuyAction' = FALSE

EmptyForm ==
  /\ strategyCompositeList' = <<>> /\ condList' = <<>>
  /\ condition' = "none" /\ conditionOn' = FALSE /\ decisionOn' = FALSE
  /\ secondStrategy' = FALSE

Init ==
  /\ scene = "files" /\ pointList = <<>>
  /\ strategyCompositeList = <<>> /\ condList = <<>>
  /\ condition = "none" /\ conditionOn = FALSE /\ decisionOn = FALSE
  /\ secondStrategy = FALSE
  /\ funds = Zero /\ units = Zero /\ currPriceOfUnits = Zero
  /\ day = 1 /\ next = 0 /\ sellOrBuyAction = FALSE /\ resultsPointsList = <<>>

-----------------------------------------------------------------------------
(* The model: Strategy, StrategyComposite. *)

\* The percentage of the first price that the last one has to reach.  Both
\* numbers of the division are whole, and so is the quotient.
Strategy(daysPrior, percent, change) ==
  [daysPrior |-> daysPrior, action |-> change,
   percent |-> DivideHalfUp(Dec(IF change = "INCREASE" THEN 100 + percent
                                                       ELSE 100 - percent, 0), Dec(100, 0))]

getIndexOfData(date) == SelectInSeq(pointList, LAMBDA point : point.date = date)

Met(strategy, first, last) ==
  LET delta == DivideHalfUp(last, first)
  IN CASE strategy.action = "INCREASE" -> ~Less(delta, strategy.percent)
       [] strategy.action = "DECREASE" -> ~Less(strategy.percent, delta)

\* TRUE or FALSE, or what is thrown: there is no such day ("date"), or a
\* division by a price of 0 ("zero").
EvaluateStrategy_Exclusive(strategy, today) ==
  LET from == getIndexOfData(today) - strategy.daysPrior
      between == SelectSeq(pointList, LAMBDA point :
                   point.date > pointList[from].date /\ point.date <= today)
  IN IF from < 1 THEN "date"
     ELSE IF between = <<>> THEN "date"
     ELSE IF Head(between).price.unscaled = 0 THEN "zero"
     ELSE IF Met(strategy, Head(between).price, Last(between).price) THEN "yes" ELSE "no"

EvaluateStrategy(strategy, today) ==
  LET from == getIndexOfData(today) - strategy.daysPrior
      between == SelectSeq(pointList, LAMBDA point :
                   point.date >= pointList[from].date /\ point.date <= today)
  IN IF from < 1 THEN "date"
     ELSE IF between = <<>> THEN "date"
     ELSE IF Head(between).price.unscaled = 0 THEN "zero"
     ELSE IF Met(strategy, Head(between).price, Last(between).price) THEN "yes" ELSE "no"

\* && and || look at the next strategy only if it matters.
Evaluate(composite, today) ==
  LET decisive == IF composite.condition = "AND" THEN "yes" ELSE "no"
      Combine(result, strategy) ==
        IF result = decisive THEN EvaluateStrategy(strategy, today) ELSE result
  IN FoldLeft(Combine, EvaluateStrategy(Head(composite.strategies), today),
              Tail(composite.strategies))

-----------------------------------------------------------------------------
(* The model: Portfolio. *)
getCurrentPortfolioValue == Plus(funds, Times(units, currPriceOfUnits))

buy_HalfUp(percentOfFunds) ==
  LET expense == Times(funds, percentOfFunds)
  IN IF Less(expense, currPriceOfUnits) \/ ~Less(expense, funds)
     THEN UNCHANGED <<funds, units>>
     ELSE /\ units' = Plus(units, DivideHalfUp(expense, currPriceOfUnits))
          /\ funds' = Minus(funds, expense)

\* Less than one unit, or all the funds, is not bought.
buy(percentOfFunds) ==
  LET expense == Times(funds, percentOfFunds)
  IN IF Less(expense, currPriceOfUnits) \/ ~Less(expense, funds)
     THEN UNCHANGED <<funds, units>>
     ELSE /\ units' = Plus(units, DivideDown(expense, currPriceOfUnits))
          /\ funds' = Minus(funds, expense)

sell(percentOfUnitsValue) ==
  LET sellValue == Times(Times(units, currPriceOfUnits), percentOfUnitsValue)
      unitsToSell == DivideDown(sellValue, currPriceOfUnits)
  IN IF Less(sellValue, currPriceOfUnits) \/ Less(units, unitsToSell)
     THEN UNCHANGED <<funds, units>>
     ELSE units' = Minus(units, unitsToSell) /\ funds' = Plus(funds, sellValue)

\* A price of 0 is divided by, except in a purchase of all the funds or more.
TradeThrows(composite) ==
  /\ currPriceOfUnits.unscaled = 0
  /\ composite.decision = "BUY" => Less(Times(funds, composite.share), funds)

-----------------------------------------------------------------------------
(* The form. *)
MayEdit == scene = "form" /\ UNCHANGED <<scene, pointList, portfolio, loops>>

SelectCondition ==
  /\ MayEdit /\ conditionOn
  /\ condition' \in {"AND", "OR"}
  /\ UNCHANGED <<rules, conditionOn, decisionOn, secondStrategy>>

ShowLine(strategy, percent) ==
  condList' = Append(condList, [kind |-> "strategy", strategy |-> strategy,
                                percent |-> percent])

\* The first condition makes a new rule.
NewRule_NotSecond(strategy) ==
  /\ condition = "none"
  /\ strategyCompositeList' =
       Append(strategyCompositeList, [strategies |-> <<strategy>>, condition |-> "none",
                                      decision |-> "none", share |-> Zero])
  /\ conditionOn' = TRUE /\ decisionOn' = TRUE
  /\ UNCHANGED secondStrategy

NewRule(strategy) ==
  /\ condition = "none"
  /\ strategyCompositeList' =
       Append(strategyCompositeList, [strategies |-> <<strategy>>, condition |-> "none",
                                      decision |-> "none", share |-> Zero])
  /\ conditionOn' = TRUE /\ decisionOn' = TRUE /\ secondStrategy' = TRUE

\* A further one joins the last rule.
JoinRule(strategy) ==
  /\ condition # "none"
  /\ LET last == Len(strategyCompositeList)
     IN strategyCompositeList' =
          [strategyCompositeList EXCEPT ![last].strategies = Append(@, strategy),
                                        ![last].condition = condition]
  /\ conditionOn' = FALSE
  /\ UNCHANGED <<decisionOn, secondStrategy>>

\* Other entries are refused and change nothing.
handleAddCondButton ==
  /\ MayEdit
  /\ ~(secondStrategy /\ condition = "none")
  /\ Len(SelectSeq(condList, LAMBDA line : line.kind = "strategy")) < MaxStrategies
  /\ \E daysPrior \in Days, percent \in Percents, change \in {"INCREASE", "DECREASE"} :
       LET strategy == Strategy(daysPrior, percent, change)
       IN ShowLine(strategy, percent) /\ (NewRule(strategy) \/ JoinRule(strategy))
  /\ UNCHANGED condition

handleAddDecisionButton ==
  /\ MayEdit /\ decisionOn
  /\ \E decision \in {"BUY", "SELL"}, share \in Shares :
       /\ strategyCompositeList' =
            [strategyCompositeList EXCEPT
               ![Len(strategyCompositeList)].decision = decision,
               ![Len(strategyCompositeList)].share = share]
       /\ condList' = Append(condList, [kind |-> "then", decision |-> decision,
                                        share |-> share])
  /\ condition' = "none" /\ conditionOn' = FALSE /\ decisionOn' = FALSE
  /\ secondStrategy' = FALSE

-----------------------------------------------------------------------------
(* handleDoneButton. *)
handleDoneButton ==
  /\ scene = "form" /\ scene' = "running"
  /\ funds' \in Funds
  /\ resultsPointsList' = <<>>
  /\ UNCHANGED <<pointList, rules, fields, units, currPriceOfUnits, day, next,
                 sellOrBuyAction>>

Running == scene = "running" /\ UNCHANGED <<pointList, rules, fields>>

updateValue ==
  /\ Running /\ day <= Len(pointList) /\ next = 0
  /\ currPriceOfUnits' = pointList[day].price
  /\ next' = 1
  /\ UNCHANGED <<scene, funds, units, day, sellOrBuyAction, resultsPointsList>>

Verdict == Evaluate(strategyCompositeList[next], pointList[day].date)

\* When the rule cannot be evaluated sellOrBuyAction is what it was.
Decides == IF Verdict = "date" THEN sellOrBuyAction ELSE Verdict = "yes"

Throws ==
  LET composite == strategyCompositeList[next]
  IN \/ Verdict = "zero"
     \/ Decides /\ (composite.decision = "none" \/ TradeThrows(composite))

RuleActs ==
  /\ Running /\ next \in DOMAIN strategyCompositeList
  /\ ~Throws
  /\ sellOrBuyAction' = Decides
  /\ LET composite == strategyCompositeList[next]
     IN IF ~Decides THEN UNCHANGED <<funds, units>>
        ELSE \/ composite.decision = "BUY" /\ buy(composite.share)
             \/ composite.decision = "SELL" /\ sell(composite.share)
  /\ next' = next + 1
  /\ UNCHANGED <<scene, currPriceOfUnits, day, resultsPointsList>>

\* What is thrown leaves the handler: the user sees the form as it was.
HandlerThrows ==
  /\ Running /\ next \in DOMAIN strategyCompositeList
  /\ Throws
  /\ scene' = "form"
  /\ HandlerEnds /\ UNCHANGED resultsPointsList

addDataPointToList ==
  /\ Running /\ next = Len(strategyCompositeList) + 1
  /\ resultsPointsList' = Append(resultsPointsList, getCurrentPortfolioValue)
  /\ day' = day + 1 /\ next' = 0
  /\ UNCHANGED <<scene, portfolio, sellOrBuyAction>>

initResultsScene ==
  /\ Running /\ day = Len(pointList) + 1
  /\ scene' = "results"
  /\ HandlerEnds /\ UNCHANGED resultsPointsList

-----------------------------------------------------------------------------
(* AppController: the way from scene to scene. *)
goBackToGraphScene ==
  /\ scene = "results" /\ scene' = "form"
  /\ UNCHANGED <<pointList, rules, fields, portfolio, loops>>

goBackToFirstWindow ==
  /\ scene = "form" /\ scene' = "files"
  /\ pointList' = <<>> /\ EmptyForm /\ resultsPointsList' = <<>>
  /\ UNCHANGED <<portfolio, day, next, sellOrBuyAction>>

\* Reset, and the opening of a file: a new controller with an empty form.
initGraphScene ==
  /\ \/ scene = "files" /\ pointList' \in Files
     \/ scene = "form" /\ UNCHANGED pointList
  /\ scene' = "form"
  /\ EmptyForm /\ resultsPointsList' = <<>>
  /\ UNCHANGED <<portfolio, day, next, sellOrBuyAction>>

User ==
  \/ SelectCondition \/ handleAddCondButton \/ handleAddDecisionButton \/ handleDoneButton
  \/ goBackToGraphScene \/ goBackToFirstWindow \/ initGraphScene

Round == updateValue \/ RuleActs \/ HandlerThrows \/ addDataPointToList \/ initResultsScene

Next == User \/ Round

Spec == Init /\ [][Next]_vars
-----------------------------------------------------------------------------
(* What the program should be right about. *)
IsDec(a) == a.unscaled \in Int /\ a.scale \in Nat

TypeOK ==
  /\ scene \in {"files", "form", "running", "results"}
  /\ pointList \in Files \cup {<<>>}
  /\ condition \in {"none", "AND", "OR"}
  /\ conditionOn \in BOOLEAN /\ decisionOn \in BOOLEAN /\ secondStrategy \in BOOLEAN
  /\ \A amount \in {funds, units, currPriceOfUnits} : IsDec(amount) /\ amount.unscaled >= 0
  /\ day \in 1..(Len(pointList) + 1) /\ next \in 0..(Len(strategyCompositeList) + 1)
  /\ sellOrBuyAction \in BOOLEAN
  /\ \A i \in DOMAIN resultsPointsList : IsDec(resultsPointsList[i])
  /\ \A i \in DOMAIN strategyCompositeList :
       strategyCompositeList[i].decision \in {"none", "BUY", "SELL"}

\* What the user reads in condList is what will be tried, rule for rule, however
\* the buttons of the form are mixed: every rule but the one that is being made
\* has its decision, and one of several conditions is joined by the AND or OR
\* that is still shown.
FormShowsRules ==
  LET Then(rule) == IF rule.decision = "none" THEN <<>> ELSE <<<<rule.decision, rule.share>>>>
      Read(line) == IF line.kind = "strategy" THEN line.strategy
                                              ELSE <<line.decision, line.share>>
  IN /\ TypeOK
     /\ [i \in DOMAIN condList |-> Read(condList[i])]
          = FlattenSeq([i \in DOMAIN strategyCompositeList |->
                          strategyCompositeList[i].strategies \o Then(strategyCompositeList[i])])
     /\ \A i \in DOMAIN strategyCompositeList :
          LET rule == strategyCompositeList[i]
          IN /\ rule.decision = "none" => i = Len(strategyCompositeList)
             /\ Len(rule.strategies) > 1 =>
                  rule.condition # "none" /\ (rule.decision = "none" => rule.condition = condition)

\* What Evaluate comes to where the file is in the order of the days: the price of
\* the day against the one daysPrior lines before, and nothing later.
Expected(rule, d) ==
  LET Known(k) == d > rule.strategies[k].daysPrior
      Holds(k) ==
        LET first == pointList[d - rule.strategies[k].daysPrior].price
        IN first.unscaled # 0 /\ Met(rule.strategies[k], first, pointList[d].price)
      looked == {k \in DOMAIN rule.strategies : \A l \in 1..k : Known(l)}
  IN CASE rule.condition # "OR" /\ (\E k \in looked : ~Holds(k)) -> "no"
       [] rule.condition = "OR" /\ (\E k \in looked : Holds(k)) -> "yes"
       [] looked # DOMAIN rule.strategies -> "date"
       [] OTHER -> IF rule.condition = "OR" THEN "no" ELSE "yes"

\* A rule acts on a day if its conditions hold on the prices up to that day and on
\* no later one.  One whose daysPrior reach back too far does not rest: it acts if
\* the last rule that could be evaluated did, be it a rule with another decision
\* or on another day.
RulesActOnVerdicts ==
  scene = "running" /\ (\A i \in 2..Len(pointList) : pointList[i - 1].date < pointList[i].date) =>
    LET rulesNr == Len(strategyCompositeList)
        Try(i) == Expected(strategyCompositeList[((i - 1) % rulesNr) + 1],
                           ((i - 1) \div rulesNr) + 1)
        rounds == 1..((day - 1) * rulesNr + (IF next = 0 THEN 0 ELSE next - 1))
        evaluated == {i \in rounds : Try(i) # "date"}
    IN sellOrBuyAction <=> evaluated # {} /\ Try(Max(evaluated)) = "yes"

\* Trading alone never makes the portfolio worth more, and loses less than one
\* unit in the last digit of the funds would buy; nothing is sold that is not
\* owned, nor spent that is not there.
TradesKeepValue ==
  [][next # 0 /\ next' = next + 1 =>
       LET loss == Minus(getCurrentPortfolioValue, getCurrentPortfolioValue')
       IN /\ loss.unscaled >= 0
          /\ loss.unscaled > 0 =>
               Less(loss, Times(currPriceOfUnits, Dec(1, funds'.scale)))
          /\ funds'.unscaled >= 0 /\ units'.unscaled >= 0]_vars

\* A condition that holds has the change it names: a rise of percent or more, or a
\* fall (StrategyTest expects so of a rise to 150 percent against one to 200).
PercentIsReached ==
  \A i \in DOMAIN condList, d \in DOMAIN pointList :
    LET line == condList[i]
        first == pointList[d - line.strategy.daysPrior].price
        last == pointList[d].price
    IN line.kind = "strategy" /\ d > line.strategy.daysPrior
         /\ EvaluateStrategy(line.strategy, pointList[d].date) = "yes" =>
           IF line.strategy.action = "INCREASE"
           THEN ~Less(Times(last, Dec(100, 0)), Times(first, Dec(100 + line.percent, 0)))
           ELSE ~Less(Times(first, Dec(100 - line.percent, 0)), Times(last, Dec(100, 0)))
=============================================================================
