CONSTANTS
 Thread = {t1, t2}
 MinSamples = 2
 MaxSamples = 3
 Patience = 2
 Threshold = 1
 Accuracies = {0, 1, 2}
 Percent <- MCPercent
 MostFeedback = 2
 Score = {10, 35, 50, 78, 90}
 Window = 3
 Cooldown = 2
SPECIFICATION MCSpec
INVARIANTS ServedIsActive CallbacksGetRates
PROPERTIES TrainingHappens 
CHECK_DEADLOCK FALSE
