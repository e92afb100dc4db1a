SPECIFICATION FairSpec
CONSTANTS
  NumTestResults = 1
  MaxBoots = 0
PROPERTY PublishesOnceUp
