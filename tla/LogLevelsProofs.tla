-------------------------- MODULE LogLevelsProofs ---------------------------
(***************************************************************************)
(* LogLevels for any tree of loggers and any overrides.                    *)
(***************************************************************************)
EXTENDS LogLevels, WellFoundedInduction, TLAPS

\* Every name stands for one of the levels.
LEMMA LevelOfType == \A name : LevelOf(name) \in Levels
BY DEF LevelOf, LOG_LEVEL_MAPPING, Levels, WARNING, INFO

LEMMA OwnHandlersType ==
    ASSUME NEW lvl \in Levels
    PROVE  /\ OwnHandlers(lvl) \in Seq(Handler)
           /\ Len(OwnHandlers(lvl)) = Len(Outputs) + 1
<1> DEFINE hs == [i \in 1..Len(Outputs) |-> [out |-> Outputs[i], lvl |-> lvl]]
<1>1. Len(Outputs) \in Nat
  BY LoggersAssumption
<1>2. hs \in Seq(Handler) /\ Len(hs) = Len(Outputs)
  <2>1. \A i \in 1..Len(Outputs) : hs[i] \in Handler
    BY DEF Handler, Out
  <2> QED
    BY <1>1, <2>1
<1>3. <<[out |-> DebugPage, lvl |-> NOTSET]>> \in Seq(Handler)
  BY DEF Handler
<1> HIDE DEF hs
<1>4. OwnHandlers(lvl) = hs \o <<[out |-> DebugPage, lvl |-> NOTSET]>>
  BY DEF OwnHandlers, hs
<1> QED
  BY <1>1, <1>2, <1>3, <1>4

\* Setting the levels of handlers keeps their number.
LEMMA AtLevelType ==
    ASSUME NEW hs \in Seq(Handler), NEW lvl \in Levels
    PROVE  AtLevel(hs, lvl) \in Seq(Handler) /\ Len(AtLevel(hs, lvl)) = Len(hs)
<1>1. ASSUME NEW i \in 1..Len(hs) PROVE [out |-> hs[i].out, lvl |-> lvl] \in Handler
  <2>1. hs[i] \in Handler
    OBVIOUS
  <2> QED
    BY <2>1 DEF Handler
<1> QED
  BY <1>1 DEF AtLevel

\* A logger that is not bootstrapped late has no handlers, or one set of them.
OneSet ==
    \A l \in Loggers \ Late : Len(handlers[l]) \in {0, Len(Outputs) + 1}

Inv == TypeOK /\ OneSet

LEMMA InitInv == Init => Inv
<1> SUFFICES ASSUME Init PROVE Inv
  OBVIOUS
<1> USE LoggersAssumption
<1>1. \A l \in Loggers : handlers[l] \in Seq(Handler) /\ Len(handlers[l]) \in {0, Len(Outputs) + 1}
  BY OwnHandlersType DEF Init
<1>2. handlers \in [Loggers -> Seq(Handler)]
  BY <1>1 DEF Init
<1>3. level \in [Loggers -> {NOTSET} \cup Levels]
  BY DEF Init, Levels
<1> QED
  BY <1>1, <1>2, <1>3 DEF Init, Inv, OneSet, TypeOK, Empty

LEMMA BootstrapInv ==
    ASSUME Inv, NEW b \in Late, Bootstrap(b)
    PROVE  Inv'
<1> USE LoggersAssumption DEF Inv
<1>1. handlers[b] \in Seq(Handler) /\ OwnHandlers(WARNING) \in Seq(Handler)
  BY OwnHandlersType DEF TypeOK, Levels
<1>2. handlers[b] \o OwnHandlers(WARNING) \in Seq(Handler)
  BY <1>1
<1>3. handlers' \in [Loggers -> Seq(Handler)]
  BY <1>2 DEF TypeOK, Bootstrap
<1>4. TypeOK'
  BY <1>3 DEF TypeOK, Bootstrap
<1>5. OneSet'
  BY DEF TypeOK, OneSet, Bootstrap
<1> QED
  BY <1>4, <1>5

LEMMA UpdateInv ==
    ASSUME Inv, NEW ov \in Feeds, Update(ov)
    PROVE  Inv'
<1> USE DEF Inv
<1> DEFINE new == [l \in DOMAIN ov |-> LevelOf(ov[l])]
           gone == DOMAIN store \ DOMAIN new
           changed == NewOverrides(new)
<1>1. DOMAIN new \subseteq Loggers /\ \A l \in DOMAIN new : new[l] \in Levels
  BY LoggersAssumption, LevelOfType
<1>2. changed \subseteq DOMAIN new /\ gone \cap changed = {}
  BY DEF NewOverrides
<1>3. /\ level' = [l \in Loggers |-> IF l \in gone THEN LogLevel
                                     ELSE IF l \in changed THEN new[l]
                                     ELSE level[l]]
      /\ handlers' = [l \in Loggers |-> IF l \in gone THEN ResetHandlers(l)
                                        ELSE IF l \in changed THEN OverrideHandlers(l, new[l])
                                        ELSE handlers[l]]
      /\ store' = new
      /\ UNCHANGED propagate
  BY DEF Update, Remembered
<1>4. \A l \in DOMAIN new \ changed : l \in DOMAIN store /\ store[l] = new[l]
  BY DEF NewOverrides
<1> HIDE DEF new, changed
<1>5. \A l \in Loggers : level'[l] \in {NOTSET} \cup Levels
  BY <1>1, <1>2, <1>3, LoggersAssumption DEF TypeOK
<1>6. \A l \in DOMAIN new : new[l] = level'[l]
  BY <1>1, <1>2, <1>3, <1>4 DEF TypeOK
<1>7. ASSUME NEW l \in Loggers
      PROVE  /\ handlers'[l] \in Seq(Handler)
             /\ Len(handlers'[l]) \in {Len(handlers[l]), Len(handlers[Root])}
             /\ Len(handlers[l]) # 0 => Len(handlers'[l]) = Len(handlers[l])
  <2>1. handlers[l] \in Seq(Handler) /\ handlers[Root] \in Seq(Handler)
    BY LoggersAssumption DEF TypeOK
  <2>2. CASE l \in gone
    <3>1. handlers'[l] = AtLevel(handlers[l], LogLevel)
      BY <1>3, <2>2 DEF ResetHandlers
    <3> QED
      BY <3>1, <2>1, AtLevelType, LoggersAssumption
  <2>3. CASE l \in changed
    <3>1. handlers'[l] = AtLevel(IF handlers[l] # <<>> THEN handlers[l] ELSE handlers[Root], new[l])
      BY <1>2, <1>3, <2>3 DEF OverrideHandlers
    <3>2. new[l] \in Levels
      BY <1>1, <1>2, <2>3
    <3>3. CASE handlers[l] # <<>>
      BY <3>1, <3>2, <3>3, <2>1, AtLevelType
    <3>4. CASE handlers[l] = <<>>
      BY <3>1, <3>2, <3>4, <2>1, AtLevelType
    <3> QED
      BY <3>3, <3>4
  <2>4. CASE l \notin gone /\ l \notin changed
    BY <1>3, <2>1, <2>4
  <2> QED
    BY <2>2, <2>3, <2>4
<1>8. OneSet'
  BY <1>7, LoggersAssumption DEF OneSet
<1>9. handlers' \in [Loggers -> Seq(Handler)]
  BY <1>3, <1>7
<1>10. level' \in [Loggers -> {NOTSET} \cup Levels]
  BY <1>3, <1>5
<1>11. TypeOK'
  BY <1>1, <1>3, <1>6, <1>9, <1>10 DEF TypeOK
<1> QED
  BY <1>8, <1>11

LEMMA NextInv == Inv /\ [Next]_vars => Inv'
<1> SUFFICES ASSUME Inv, [Next]_vars PROVE Inv'
  OBVIOUS
<1>1. CASE Next
  BY <1>1, BootstrapInv, UpdateInv DEF Next
<1>2. CASE UNCHANGED vars
  BY <1>2 DEF vars, Inv, TypeOK, OneSet
<1> QED
  BY <1>1, <1>2

\* The types, and that the store of the configurator client never disagrees
\* with the levels of the loggers, so that an override that was changed is
\* recognised as new (_update_log_level).
THEOREM StoreIsTrue == Spec => []TypeOK
BY InitInv, NextInv, PTL DEF Spec, Inv

\* However many overrides come and go, in any order and on any loggers, copies
\* of the root's handlers do not pile up (_override_log_level).
THEOREM HandlersDoNotPileUp == Spec => []CopiesAddedOnce
<1>1. Inv => CopiesAddedOnce
  <2>1. Len(Outputs) \in Nat
    BY LoggersAssumption
  <2> QED
    BY <2>1 DEF Inv, OneSet, CopiesAddedOnce
<1> QED
  BY <1>1, InitInv, NextInv, PTL DEF Spec

-----------------------------------------------------------------------------
(* Where records go.                                                       *)

\* Some handler of hs writes records of level n to output o.
Offers(hs, o, n) == \E i \in DOMAIN hs : hs[i].out = o /\ hs[i].lvl <= n

\* The store is what was fetched last, and in force on the loggers themselves.
WantedInv ==
    /\ store = wanted
    /\ \A l \in DOMAIN wanted : wanted[l] \in Levels /\ level[l] = wanted[l]

\* A logger that stops its records has handlers; one that has handlers reaches
\* every output, from the level of its override on if it has one; one that has
\* none, and no level of its own, lets through what options.log_level says.
HandlersInv ==
    /\ handlers[Root] # <<>>
    /\ \A l \in Loggers : ~propagate[l] => handlers[l] # <<>>
    /\ \A l \in Loggers, o \in Out : handlers[l] # <<>> => Offers(handlers[l], o, 40)
    /\ \A l \in DOMAIN wanted, o \in Out : Offers(handlers[l], o, wanted[l])
    /\ \A l \in Loggers \ (DOMAIN wanted \cup Late) :
          \A i \in DOMAIN handlers[l] : handlers[l][i].lvl <= LogLevel
    /\ \A l \in Loggers \ (DOMAIN wanted \cup Suppressed) : level[l] \in {NOTSET, LogLevel}

ForceInv == WantedInv /\ HandlersInv

LEMMA LeastNat ==
    ASSUME NEW S \in SUBSET Nat, S # {}
    PROVE  Min(S) \in S /\ \A y \in S : Min(S) <= y
<1>1. PICK x \in S : \A y \in S : ~(<<y, x>> \in OpToRel(<, Nat))
  BY NatLessThanWellFounded, WFMin
<1>2. ASSUME NEW y \in S PROVE x <= y
  <2>1. ~(y < x)
    BY <1>1 DEF OpToRel
  <2> QED
    BY <2>1
<1> QED
  BY <1>2 DEF Min

LEMMA LevelsAreNat ==
    /\ NOTSET \in Nat /\ Levels \subseteq 1..40 /\ LogLevel \in Levels
    /\ \A n \in {NOTSET} \cup Levels : n \in Nat
BY LoggersAssumption DEF NOTSET, Levels, INFO, WARNING

\* A logger is the first in its line, the root the last.
LEMMA LineFacts ==
    ASSUME NEW l \in Loggers
    PROVE  /\ Line[l] \in Seq(Loggers)
           /\ Len(Line[l]) \in Nat \ {0}
           /\ DOMAIN Line[l] = 1..Len(Line[l])
           /\ 1 \in DOMAIN Line[l] /\ Line[l][1] = l
           /\ Len(Line[l]) \in DOMAIN Line[l] /\ Line[l][Len(Line[l])] = Root
<1>1. Line[l] \in Seq(Loggers) /\ Line[l] # <<>> /\ Line[l][1] = l /\ Line[l][Len(Line[l])] = Root
  BY LoggersAssumption
<1> QED
  BY <1>1

\* The handlers bootstrap_logger adds reach every output at their level.
LEMMA OwnOffers ==
    ASSUME NEW lvl \in Levels
    PROVE  /\ \A o \in Out : Offers(OwnHandlers(lvl), o, lvl)
           /\ \A i \in DOMAIN OwnHandlers(lvl) : OwnHandlers(lvl)[i].lvl <= lvl
<1> DEFINE hs == [i \in 1..Len(Outputs) |-> [out |-> Outputs[i], lvl |-> lvl]]
           page == [out |-> DebugPage, lvl |-> NOTSET]
<1>1. Len(Outputs) \in Nat
  BY LoggersAssumption
<1>2. hs \in Seq(Handler) /\ Len(hs) = Len(Outputs)
  <2>1. \A i \in 1..Len(Outputs) : hs[i] \in Handler
    BY DEF Handler, Out
  <2> QED
    BY <1>1, <2>1
<1>3. page \in Handler
  BY DEF Handler
<1>4. \A i \in 1..Len(Outputs) : hs[i].out = Outputs[i] /\ hs[i].lvl = lvl
  OBVIOUS
<1>5. page.lvl = NOTSET
  OBVIOUS
<1>6. OwnHandlers(lvl) = hs \o <<page>>
  BY DEF OwnHandlers
<1> HIDE DEF hs, page
<1>7. /\ DOMAIN OwnHandlers(lvl) = 1..(Len(Outputs) + 1)
      /\ \A i \in 1..Len(Outputs) : OwnHandlers(lvl)[i] = hs[i]
      /\ OwnHandlers(lvl)[Len(Outputs) + 1] = page
  <2>1. <<page>> \in Seq(Handler) /\ Len(<<page>>) = 1 /\ <<page>>[1] = page
    BY <1>3
  <2>2. DOMAIN (hs \o <<page>>) = 1..(Len(hs) + 1)
    BY <1>2, <2>1
  <2>3. \A i \in 1..Len(hs) : (hs \o <<page>>)[i] = hs[i]
    BY <1>2, <2>1
  <2>4. (hs \o <<page>>)[Len(hs) + 1] = page
    BY <1>2, <1>3
  <2> QED
    BY <1>2, <1>6, <2>2, <2>3, <2>4
<1>8. \A i \in DOMAIN OwnHandlers(lvl) : i \in 1..Len(Outputs) \/ i = Len(Outputs) + 1
  BY <1>1, <1>7
<1>9. lvl \in Nat /\ NOTSET <= lvl /\ lvl <= lvl
  BY LevelsAreNat DEF NOTSET
<1>10. ASSUME NEW o \in Out PROVE Offers(OwnHandlers(lvl), o, lvl)
  <2>1. PICK i \in 1..Len(Outputs) : o = Outputs[i]
    BY DEF Out
  <2>2. i \in DOMAIN OwnHandlers(lvl)
    BY <1>1, <1>7
  <2> QED
    BY <1>4, <1>7, <1>9, <2>1, <2>2 DEF Offers
<1> QED
  BY <1>4, <1>5, <1>7, <1>8, <1>9, <1>10

\* More handlers reach no fewer outputs.
LEMMA MoreOffers ==
    ASSUME NEW hs \in Seq(Handler), NEW more \in Seq(Handler), NEW o, NEW n,
           Offers(hs, o, n) \/ Offers(more, o, n)
    PROVE  Offers(hs \o more, o, n)
<1>1. CASE Offers(hs, o, n)
  BY <1>1 DEF Offers
<1>2. CASE Offers(more, o, n)
  <2>1. PICK i \in DOMAIN more : more[i].out = o /\ more[i].lvl <= n
    BY <1>2 DEF Offers
  <2>2. Len(hs) + i \in DOMAIN (hs \o more) /\ (hs \o more)[Len(hs) + i] = more[i]
    OBVIOUS
  <2> QED
    BY <2>1, <2>2 DEF Offers
<1> QED
  BY <1>1, <1>2

\* Handlers that are set to a level reach the outputs they had from it on.
LEMMA AtLevelOffers ==
    ASSUME NEW hs \in Seq(Handler), NEW lvl \in Levels
    PROVE  /\ \A o, n : Offers(hs, o, n) => Offers(AtLevel(hs, lvl), o, lvl)
           /\ \A i \in DOMAIN AtLevel(hs, lvl) : AtLevel(hs, lvl)[i].lvl = lvl
           /\ AtLevel(hs, lvl) = <<>> <=> hs = <<>>
<1>1. DOMAIN AtLevel(hs, lvl) = DOMAIN hs
  BY DEF AtLevel
<1>2. \A i \in DOMAIN hs : AtLevel(hs, lvl)[i].out = hs[i].out /\ AtLevel(hs, lvl)[i].lvl = lvl
  BY DEF AtLevel
<1>3. lvl <= lvl
  BY LevelsAreNat
<1>4. AtLevel(hs, lvl) = <<>> <=> hs = <<>>
  BY AtLevelType
<1> QED
  BY <1>1, <1>2, <1>3, <1>4 DEF Offers

\* What reaches an output from one level on reaches it from a higher one too.
LEMMA HigherOffers ==
    ASSUME NEW hs \in Seq(Handler), NEW o, NEW n \in Nat, NEW k \in Nat, n <= k, Offers(hs, o, n)
    PROVE  Offers(hs, o, k)
<1>1. PICK i \in DOMAIN hs : hs[i].out = o /\ hs[i].lvl <= n
  BY DEF Offers
<1>2. hs[i].lvl \in Nat
  <2>1. hs[i] \in Handler
    OBVIOUS
  <2>2. hs[i].lvl \in {NOTSET} \cup Levels
    BY <2>1 DEF Handler
  <2> QED
    BY <2>2, LevelsAreNat
<1>3. hs[i].lvl <= k
  BY <1>1, <1>2
<1> QED
  BY <1>1, <1>3 DEF Offers

-----------------------------------------------------------------------------
LEMMA ForceInit == Init => ForceInv
<1> SUFFICES ASSUME Init PROVE ForceInv
  OBVIOUS
<1>1. Root \in Loggers /\ Core \subseteq Loggers /\ LogLevel \in Levels
  BY LoggersAssumption
<1>2. wanted = Empty /\ store = Empty /\ DOMAIN wanted = {}
  BY DEF Init, Empty
<1>3. ASSUME NEW l \in Loggers
      PROVE  /\ handlers[l] = IF l \in Core \cup {Root} THEN OwnHandlers(LogLevel) ELSE <<>>
             /\ propagate[l] = (l \notin Core \cup {Root})
             /\ level[l] = IF l \in Suppressed THEN WARNING ELSE NOTSET
  BY DEF Init
<1>4. OwnHandlers(LogLevel) # <<>>
  BY <1>1, OwnHandlersType, LoggersAssumption
<1>5. \A o \in Out : Offers(OwnHandlers(LogLevel), o, LogLevel)
  BY <1>1, OwnOffers
<1>6. \A i \in DOMAIN OwnHandlers(LogLevel) : OwnHandlers(LogLevel)[i].lvl <= LogLevel
  BY <1>1, OwnOffers
<1>7. \A o \in Out : Offers(OwnHandlers(LogLevel), o, 40)
  BY <1>1, <1>5, OwnHandlersType, HigherOffers, LevelsAreNat
<1>8. DOMAIN <<>> = {}
  OBVIOUS
<1>9. \A l \in Loggers : \A i \in DOMAIN handlers[l] : handlers[l][i].lvl <= LogLevel
  BY <1>3, <1>6, <1>8
<1>10. WantedInv
  BY <1>2 DEF WantedInv
<1>11. HandlersInv
  <2>1. handlers[Root] # <<>>
    BY <1>1, <1>3, <1>4
  <2>2. \A l \in Loggers : ~propagate[l] => handlers[l] # <<>>
    BY <1>3, <1>4
  <2>3. \A l \in Loggers, o \in Out : handlers[l] # <<>> => Offers(handlers[l], o, 40)
    BY <1>3, <1>7
  <2>4. \A l \in Loggers \ (DOMAIN wanted \cup Suppressed) : level[l] \in {NOTSET, LogLevel}
    BY <1>3
  <2> QED
    BY <1>2, <1>9, <2>1, <2>2, <2>3, <2>4 DEF HandlersInv
<1> QED
  BY <1>10, <1>11 DEF ForceInv

LEMMA ForceBootstrap ==
    ASSUME Inv, ForceInv, NEW b \in Late, Bootstrap(b)
    PROVE  ForceInv'
<1> USE DEF ForceInv, HandlersInv
<1> DEFINE own == OwnHandlers(WARNING)
<1>1. b \in Loggers /\ b # Root /\ WARNING \in Levels /\ handlers[b] \in Seq(Handler)
  BY LoggersAssumption DEF Inv, TypeOK, Levels
<1>2. own \in Seq(Handler) /\ own # <<>>
  BY <1>1, OwnHandlersType, LoggersAssumption
<1>3. \A o \in Out : Offers(own, o, 40)
  BY <1>1, <1>2, OwnOffers, HigherOffers, LevelsAreNat
<1>4. /\ handlers' = [handlers EXCEPT ![b] = @ \o own]
      /\ propagate' = [propagate EXCEPT ![b] = FALSE]
      /\ UNCHANGED <<level, store, wanted>>
  BY DEF Bootstrap
<1> HIDE DEF own
<1>5. /\ handlers \in [Loggers -> Seq(Handler)]
      /\ propagate \in [Loggers -> BOOLEAN]
      /\ DOMAIN wanted \subseteq Loggers
  BY DEF Inv, TypeOK, WantedInv
<1>6. handlers'[b] = handlers[b] \o own /\ \A l \in Loggers \ {b} : handlers'[l] = handlers[l]
  BY <1>1, <1>4, <1>5
<1>7. handlers[b] \o own # <<>>
  BY <1>1, <1>2
<1>8. \A o \in Out : Offers(handlers'[b], o, 40)
  BY <1>1, <1>2, <1>3, <1>6, MoreOffers
<1>9. b \in DOMAIN wanted => \A o \in Out : Offers(handlers'[b], o, wanted[b])
  BY <1>1, <1>2, <1>6, MoreOffers
<1>10. \A l \in Loggers : propagate'[l] = IF l = b THEN FALSE ELSE propagate[l]
  BY <1>4, <1>5
<1>11. WantedInv'
  BY <1>4 DEF WantedInv
<1>12. \A l \in Loggers : ~propagate'[l] => handlers'[l] # <<>>
  BY <1>6, <1>7, <1>10
<1>13. \A l \in Loggers, o \in Out : handlers'[l] # <<>> => Offers(handlers'[l], o, 40)
  BY <1>6, <1>8
<1>14. \A l \in DOMAIN wanted, o \in Out : Offers(handlers'[l], o, wanted[l])
  BY <1>5, <1>6, <1>9
<1>15. handlers'[Root] # <<>>
  BY <1>1, <1>6, LoggersAssumption
<1>16. \A l \in Loggers \ (DOMAIN wanted \cup Late) :
          \A i \in DOMAIN handlers'[l] : handlers'[l][i].lvl <= LogLevel
  BY <1>6
<1> QED
  BY <1>4, <1>11, <1>12, <1>13, <1>14, <1>15, <1>16

LEMMA ForceUpdate ==
    ASSUME Inv, ForceInv, NEW ov \in Feeds, Update(ov)
    PROVE  ForceInv'
<1> DEFINE new == [l \in DOMAIN ov |-> LevelOf(ov[l])]
           gone == DOMAIN store \ DOMAIN new
           changed == NewOverrides(new)
<1>1. DOMAIN new \subseteq Loggers /\ \A l \in DOMAIN new : new[l] \in Levels
  BY LoggersAssumption, LevelOfType
<1>2. changed \subseteq DOMAIN new /\ gone \cap changed = {}
  BY DEF NewOverrides
<1>3. /\ level' = [l \in Loggers |-> IF l \in gone THEN LogLevel
                                     ELSE IF l \in changed THEN new[l]
                                     ELSE level[l]]
      /\ handlers' = [l \in Loggers |-> IF l \in gone THEN ResetHandlers(l)
                                        ELSE IF l \in changed THEN OverrideHandlers(l, new[l])
                                        ELSE handlers[l]]
      /\ store' = new /\ wanted' = new
      /\ UNCHANGED propagate
  BY DEF Update, Remembered
<1>4. \A l \in DOMAIN new \ changed : l \in DOMAIN store /\ store[l] = new[l]
  BY DEF NewOverrides
<1> HIDE DEF new, changed, gone
<1>5. /\ handlers \in [Loggers -> Seq(Handler)]
      /\ DOMAIN wanted \subseteq Loggers /\ store = wanted
      /\ \A l \in DOMAIN wanted : level[l] = wanted[l]
  BY DEF Inv, TypeOK, WantedInv, ForceInv
<1>6. gone = DOMAIN wanted \ DOMAIN new
  BY <1>5 DEF gone
<1>7. Root \in Loggers /\ LogLevel \in Levels
  BY LoggersAssumption
<1>8. ASSUME NEW l \in gone
      PROVE  /\ level'[l] = LogLevel
             /\ handlers'[l] = <<>> <=> handlers[l] = <<>>
             /\ \A o \in Out : handlers'[l] # <<>> => Offers(handlers'[l], o, LogLevel)
             /\ \A i \in DOMAIN handlers'[l] : handlers'[l][i].lvl <= LogLevel
  <2>1. l \in Loggers /\ handlers[l] \in Seq(Handler)
    BY <1>5, <1>6
  <2>2. handlers'[l] = AtLevel(handlers[l], LogLevel) /\ level'[l] = LogLevel
    BY <1>3, <2>1 DEF ResetHandlers
  <2>3. \A o \in Out : handlers[l] # <<>> => Offers(handlers[l], o, 40)
    BY <2>1 DEF ForceInv, HandlersInv
  <2>4. LogLevel <= LogLevel
    BY <1>7, LevelsAreNat
  <2> QED
    BY <1>7, <2>1, <2>2, <2>3, <2>4, AtLevelOffers
<1>9. ASSUME NEW l \in changed
      PROVE  /\ level'[l] = new[l]
             /\ handlers'[l] # <<>>
             /\ \A o \in Out : Offers(handlers'[l], o, new[l])
  <2>1. l \in Loggers /\ handlers[l] \in Seq(Handler) /\ handlers[Root] \in Seq(Handler)
        /\ new[l] \in Levels
    BY <1>1, <1>2, <1>5, <1>7
  <2> DEFINE hs == IF handlers[l] # <<>> THEN handlers[l] ELSE handlers[Root]
  <2>2. handlers'[l] = AtLevel(hs, new[l]) /\ level'[l] = new[l]
    BY <1>2, <1>3, <2>1 DEF OverrideHandlers
  <2>3. hs \in Seq(Handler) /\ hs # <<>>
    BY <2>1 DEF ForceInv, HandlersInv
  <2>4. \A o \in Out : Offers(hs, o, 40)
    BY <1>7, <2>1 DEF ForceInv, HandlersInv
  <2> HIDE DEF hs
  <2> QED
    BY <2>1, <2>2, <2>3, <2>4, AtLevelOffers
<1>10. \A l \in Loggers : l \notin gone /\ l \notin changed
                            => level'[l] = level[l] /\ handlers'[l] = handlers[l]
  BY <1>3
<1>11. handlers' \in [Loggers -> Seq(Handler)]
  BY UpdateInv DEF Inv, TypeOK
<1>12. \A l \in DOMAIN new : new[l] \in Levels /\ level'[l] = new[l]
  BY <1>1, <1>4, <1>5, <1>6, <1>9, <1>10
<1>13. \A l \in DOMAIN new, o \in Out : Offers(handlers'[l], o, new[l])
  <2> TAKE l \in DOMAIN new, o \in Out
  <2>1. CASE l \in changed
    BY <1>9, <2>1
  <2>2. CASE l \notin changed
    BY <1>1, <1>4, <1>5, <1>6, <1>10, <2>2 DEF ForceInv, HandlersInv
  <2> QED
    BY <2>1, <2>2
<1>14. \A l \in Loggers : handlers[l] # <<>> => handlers'[l] # <<>>
  BY <1>8, <1>9, <1>10
<1>15. ASSUME NEW l \in Loggers, NEW o \in Out, handlers'[l] # <<>>
       PROVE  Offers(handlers'[l], o, 40)
  <2>1. handlers'[l] \in Seq(Handler)
    BY <1>11
  <2>2. CASE l \in gone
    <3>1. Offers(handlers'[l], o, LogLevel)
      BY <1>8, <1>15, <2>2
    <3> QED
      BY <2>1, <3>1, HigherOffers, LevelsAreNat
  <2>3. CASE l \in changed
    <3>1. Offers(handlers'[l], o, new[l]) /\ new[l] \in Levels
      BY <1>1, <1>2, <1>9, <2>3
    <3>2. \A n \in Levels : n \in Nat /\ n <= 40
      BY LevelsAreNat
    <3>3. 40 \in Nat
      OBVIOUS
    <3> QED
      BY <2>1, <3>1, <3>2, <3>3, HigherOffers
  <2>4. CASE l \notin gone /\ l \notin changed
    <3>1. handlers'[l] = handlers[l]
      BY <1>10, <2>4
    <3>2. handlers[l] # <<>>
      BY <1>15, <3>1
    <3>3. Offers(handlers[l], o, 40)
      BY <3>2 DEF ForceInv, HandlersInv
    <3> QED
      BY <3>1, <3>3
  <2> QED
    BY <2>2, <2>3, <2>4
<1>16. \A l \in Loggers \ (DOMAIN new \cup Late) :
          \A i \in DOMAIN handlers'[l] : handlers'[l][i].lvl <= LogLevel
  BY <1>2, <1>6, <1>8, <1>10 DEF ForceInv, HandlersInv
<1>17. \A l \in Loggers \ (DOMAIN new \cup Suppressed) : level'[l] \in {NOTSET, LogLevel}
  BY <1>2, <1>6, <1>8, <1>10 DEF ForceInv, HandlersInv
<1>18. handlers'[Root] # <<>> /\ \A l \in Loggers : ~propagate'[l] => handlers'[l] # <<>>
  BY <1>3, <1>7, <1>14 DEF ForceInv, HandlersInv
<1> QED
  BY <1>3, <1>12, <1>13, <1>15, <1>16, <1>17, <1>18 DEF ForceInv, WantedInv, HandlersInv

LEMMA ForceIsInvariant == Spec => [](Inv /\ ForceInv)
<1>1. Inv /\ ForceInv /\ [Next]_vars => ForceInv'
  <2> SUFFICES ASSUME Inv, ForceInv, [Next]_vars PROVE ForceInv'
    OBVIOUS
  <2>1. CASE Next
    BY <2>1, ForceBootstrap, ForceUpdate DEF Next
  <2>2. CASE UNCHANGED vars
    BY <2>2 DEF vars, ForceInv, WantedInv, HandlersInv
  <2> QED
    BY <2>1, <2>2
<1> QED
  BY <1>1, InitInv, NextInv, ForceInit, PTL DEF Spec

-----------------------------------------------------------------------------
\* A record is written when its level is let through and a logger of the
\* chain has a handler for it.
LEMMA WrittenWhen ==
    ASSUME NEW l, NEW n, NEW o, ~(n < EffectiveLevel(l)),
           \E k \in Chain(l) : Offers(handlers[k], o, n)
    PROVE  Writers(l, n, o) # {}
<1>0. PICK k \in Chain(l) : Offers(handlers[k], o, n)
  OBVIOUS
<1>1. PICK i \in DOMAIN handlers[k] : handlers[k][i].out = o /\ handlers[k][i].lvl <= n
  BY <1>0 DEF Offers
<1>2. <<k, i>> \in UNION {{j} \X DOMAIN handlers[j] : j \in Chain(l)}
  BY <1>1
<1>3. <<k, i>>[1] = k /\ <<k, i>>[2] = i
  OBVIOUS
<1>4. <<k, i>> \in Writers(l, n, o)
  BY <1>1, <1>2, <1>3 DEF Writers
<1> QED
  BY <1>4

\* For any tree of loggers and any sequence of overrides, of rollbacks and of
\* bootstraps: what was fetched last is what decides about the records of the
\* loggers it names (_update_log_level).
THEOREM OverridesAreInForce == Spec => []OverrideInForce
<1>1. ASSUME Inv, ForceInv PROVE OverrideInForce
  <2> SUFFICES ASSUME NEW l \in DOMAIN wanted, NEW n \in Levels, NEW o \in Out
               PROVE  (Writers(l, n, o) # {}) <=> n >= wanted[l]
    BY DEF OverrideInForce
  <2>1. l \in Loggers /\ wanted[l] \in Levels /\ level[l] = wanted[l]
    BY <1>1 DEF Inv, TypeOK, ForceInv, WantedInv
  <2>2. level[l] # NOTSET
    BY <2>1 DEF Levels, NOTSET, INFO, WARNING
  <2> DEFINE having == {i \in DOMAIN Line[l] : level[Line[l][i]] # NOTSET}
  <2>3. 1 \in having /\ having \in SUBSET Nat /\ \A i \in having : 1 <= i
    BY <2>1, <2>2, LineFacts
  <2>4. Min(having) = 1
    BY <2>3, LeastNat
  <2>5. EffectiveLevel(l) = wanted[l]
    BY <2>1, <2>3, <2>4, LineFacts DEF EffectiveLevel
  <2>6. l \in Chain(l)
    BY <2>1, LineFacts DEF Chain
  <2>7. n \in Nat /\ wanted[l] \in Nat
    BY <2>1, LevelsAreNat
  <2>8. CASE n >= wanted[l]
    <3>1. Offers(handlers[l], o, wanted[l]) /\ handlers[l] \in Seq(Handler)
      BY <1>1, <2>1 DEF Inv, TypeOK, ForceInv, HandlersInv
    <3>2. Offers(handlers[l], o, n)
      BY <2>7, <2>8, <3>1, HigherOffers
    <3>3. ~(n < EffectiveLevel(l))
      BY <2>5, <2>7, <2>8
    <3> QED
      BY <2>6, <2>8, <3>2, <3>3, WrittenWhen
  <2>9. CASE ~(n >= wanted[l])
    <3>1. n < EffectiveLevel(l)
      BY <2>5, <2>7, <2>9
    <3> QED
      BY <2>9, <3>1 DEF Writers
  <2> QED
    BY <2>8, <2>9
<1> QED
  BY <1>1, ForceIsInvariant, PTL

\* For any tree of loggers and any history of overrides on them, a logger that
\* no override concerns now writes what it wrote before the first of them
\* (_rollback_overrides, _reset_log_level).
THEOREM RecordsAreNotLost == Spec => []NothingLost
<1>1. ASSUME Inv, ForceInv PROVE NothingLost
  <2> SUFFICES ASSUME NEW l \in Loggers, NEW n \in Levels, NEW o \in Out,
                      Above(l) \cap (DOMAIN wanted \cup Suppressed \cup Late) = {},
                      n >= LogLevel
               PROVE  Writers(l, n, o) # {}
    BY DEF NothingLost
  <2>1. \A i \in DOMAIN Line[l] : /\ Line[l][i] \in Loggers \ (DOMAIN wanted \cup Suppressed)
                                  /\ Line[l][i] \in Loggers \ (DOMAIN wanted \cup Late)
    BY LineFacts DEF Above
  <2>2. n \in Nat /\ LogLevel \in Nat /\ NOTSET \in Nat /\ NOTSET <= n
    BY LevelsAreNat DEF NOTSET
  <2>3. ~(n < EffectiveLevel(l))
    <3> DEFINE having == {i \in DOMAIN Line[l] : level[Line[l][i]] # NOTSET}
    <3>1. CASE having = {}
      BY <2>2, <3>1 DEF EffectiveLevel
    <3>2. CASE having # {}
      <4>1. having \in SUBSET Nat
        BY LineFacts
      <4>2. Min(having) \in DOMAIN Line[l]
        BY <3>2, <4>1, LeastNat
      <4>3. level[Line[l][Min(having)]] \in {NOTSET, LogLevel}
        BY <1>1, <2>1, <4>2 DEF ForceInv, HandlersInv
      <4>4. EffectiveLevel(l) = level[Line[l][Min(having)]]
        BY <3>2 DEF EffectiveLevel
      <4> QED
        BY <2>2, <4>3, <4>4
    <3> QED
      BY <3>1, <3>2
  <2> DEFINE speaking == {i \in DOMAIN Line[l] : handlers[Line[l][i]] # <<>>}
             first == Min(speaking)
  <2>4. Len(Line[l]) \in speaking
    BY <1>1, LineFacts DEF ForceInv, HandlersInv
  <2>5. speaking \in SUBSET Nat
    BY LineFacts
  <2>6. first \in speaking /\ \A i \in speaking : first <= i
    BY <2>4, <2>5, LeastNat
  <2> HIDE DEF first
  <2>7. \A i \in 1..(first - 1) : i \in DOMAIN Line[l] /\ i \notin speaking
    <3>1. first \in 1..Len(Line[l]) /\ Len(Line[l]) \in Nat
      BY <2>6, LineFacts
    <3>2. \A i \in 1..(first - 1) : i \in 1..Len(Line[l]) /\ ~(first <= i)
      BY <3>1
    <3> QED
      BY <2>6, <3>2, LineFacts
  <2>8. \A i \in 1..(first - 1) : propagate[Line[l][i]]
    BY <1>1, <2>1, <2>7 DEF ForceInv, HandlersInv
  <2>9. Line[l][first] \in Chain(l)
    BY <2>6, <2>8 DEF Chain
  <2>10. Offers(handlers[Line[l][first]], o, n)
    <3> DEFINE k == Line[l][first]
    <3>1. k \in Loggers \ (DOMAIN wanted \cup Late) /\ handlers[k] # <<>>
      BY <2>1, <2>6
    <3>2. handlers[k] \in Seq(Handler)
      BY <1>1, <3>1 DEF Inv, TypeOK
    <3>3. Offers(handlers[k], o, 40) /\ \A i \in DOMAIN handlers[k] : handlers[k][i].lvl <= LogLevel
      BY <1>1, <3>1 DEF ForceInv, HandlersInv
    <3>4. Offers(handlers[k], o, LogLevel)
      BY <3>3 DEF Offers
    <3> QED
      BY <2>2, <3>2, <3>4, HigherOffers
  <2> QED
    BY <2>3, <2>9, <2>10, WrittenWhen
<1> QED
  BY <1>1, ForceIsInvariant, PTL
=============================================================================
