\* Every formula of up to six of twelve tokens, every list of up to three of
\* thirteen atoms, three formulas that name each other, tables of three rows
\* and trees of four pages.
CONSTANTS
  MaxNesting = 2
  Spelling <- MCSpelling
  MaxFormulaDepth = 2
  Tokens <- MCTokens
  MaxTokens = 6
  Atoms <- MCAtoms
  MaxAtoms = 3
  FormulaNames <- MCNames
  Expressions <- MCExpressions
  MaxFormulas = 3
  Fillings <- MCFillings
  MaxRows = 3
  Schema <- MCSchema
  Moment = 9
  SortIds <- MCSortIds
  Sortings <- MCSortings
  Views <- MCViews
  PageSizes = {1, 2}
  RowValue <- ValueFor
  FilterVerdict <- EvaluateFilter
  Targets <- MCTargets
  MaxPages = 4
  MaxPieces = 4
SPECIFICATION Spec
INVARIANTS
  ParsesByPrecedence
  CyclesAreErrors
  CellsNormalize
  OppositesSplit
  RollupsAgree
  SortedAndStable
  AnswerKeepsEveryRow
  DropLandsWhereDrawn
  ImportKeepsText
CHECK_DEADLOCK FALSE
