\* Two goroutines, two feeds of up to two suspensions; everything may go wrong.
CONSTANTS
  Callers = {g1, g2}
  Runs = {r1, r2}
  NoRun = NoRun
  MaxStep = 2
  Mishaps = {"print", "malformed", "codec", "cancel", "unknown", "misload", "budget", "panic"}
SPECIFICATION Spec
SYMMETRY Symmetry
INVARIANTS
  OneSpeaker
  AnswersItsSuspension
  DumpIsOfItsSnapshot
  OneDriver
  CallbacksCancelled
  AgreeUntilEventLost
  ResumableUntilMishap
PROPERTY FeedSpec
