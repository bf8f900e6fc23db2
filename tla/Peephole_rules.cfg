CONSTANTS
  Traces <- RuleTraces
  Scripts <- AllScripts
  Word = 16
SPECIFICATION Spec
CHECK_DEADLOCK FALSE
INVARIANT PairIsOpen
INVARIANT NothingLeft
PROPERTY RulesKeepMeaning
PROPERTY PairsKeepMeaning
PROPERTY CommandEnds
