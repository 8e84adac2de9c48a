\* Five outcomes, of which three are on the newer side of the split.
CONSTANTS
  Outcomes <- MCOutcomes
  Profiles <- MCProfiles
  LiveSettings <- MCLiveSettings
  MinTrain = 2
  MinTest = 1
  TrainPercent = 50
  Embargo = 2
  Target = 500
  Proposers = {p}
  MaxRows = 5
  MaxDeploys = 0
  MaxAnswers = 0
SPECIFICATION WalkSpec
CHECK_DEADLOCK FALSE
INVARIANT ChosenOnTraining
