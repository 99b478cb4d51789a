SPECIFICATION Spec
CONSTANTS
  p1 = p1  p2 = p2  u1 = u1  u2 = u2  u3 = u3
  proj = proj  user = user  gpu = gpu  cpu = cpu  secret = secret
  NoOne = NoOne
  Stores <- TwoStores
  Index <- TheIndex
  Place <- ThePlace
  Topic <- TheTopic
  Text <- TheText
  LineInText <- TheLine
  HeaderLine = 1
  Questions <- TheQuestions
  K = 3
  MinSim = 3
  Endpoints <- Ladder
  Named = {cpu}
  Budget <- TheBudget
  Window <- TheWindow
  Withholds <- TheWithholds
  StartList = {}
  Unredacted = FALSE
  SearchUnredacted = FALSE
  MaxEvents = 3
INVARIANTS WithheldNeverSent
INVARIANTS BestHitsReachTheLadder RefusalIsHonest ServingRungAnswers
