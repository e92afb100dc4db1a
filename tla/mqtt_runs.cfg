SPECIFICATION FairSpec
CONSTANTS
  MqttConnectTries = 3
  AppConnectTries = 3
  MaxFailures = 5
  NumTestResults = 5
  NumSensors = 2
INVARIANTS TypeOK IInv ResultTruthful
PROPERTIES RebootIsEarned PublishesInSession HandlerEnds PublishingRecovers
