SPECIFICATION Spec
CHECK_DEADLOCK FALSE
CONSTANTS
  Syllables <- MCSyllables
  Vowels <- MCVowels
  Unlikely <- MCUnlikely
  Fallback <- MCFallback
  Near <- MCNear
  PathBudget = 4
  WideBudget = 16
  LongInput = 5
  AssistBeam = 8
  Lexicon <- MCLexicon
  Learned <- MCLearned
  Seeds <- MCSeeds
  Preferred <- MCPreferred
  SearchFloor = 4
  BeamWidth = 2
  KindBudget = 3
  CoherenceFloor = 4
  AlternativeLimit = 4
  MaxInput = 7
  Drafts <- MCDrafts
  PageSize = 2
  MaxCut = 0
  MaxUnseen = 1
  MaxShown = 6
INVARIANTS
  ShortestReadingFirst
  IncrementalKeepsFirst
  BestSentenceFirst
  RowsDistinct
  RowsUseSyllables
  CorrectionOnlyAdds
  PreviewSpells
  EditsKeepPreview
