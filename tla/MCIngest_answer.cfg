\* Liveness: two uploads at a time, queues that stall; or one, a dying runner and a dying gateway.
SPECIFICATION AnswerSpec
CONSTANTS
  Sub = {s1, s2}
  NoSub = NoSub
  Content = {s1, s2}
  MaxInflight = 2
  Stalls = TRUE
  MaxDeaths = 1
  MaxCrashes = 1
PROPERTIES EventuallyAnswered
