\* Every feature vector over low, middling and high factor values.
CONSTANT Levels <- MCLevels
SPECIFICATION Spec
INVARIANT ExplanationSignMatchesModel
