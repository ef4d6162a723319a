SPECIFICATION Spec
CONSTANTS
  Products = {1, 2, 3}
  Trials = {1}
  ConvertsTo <- MCConvertsTo
  Credits <- MCCredits
  Storage <- MCStorage
  TopUp = 1
  MaxEvents = 3
  MaxPeriod = 2
  MaxSeats = 1
  MaxDebits = 1
CHECK_DEADLOCK FALSE
PROPERTY RefundDeactivates
