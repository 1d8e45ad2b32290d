\* Two cards, the reset pulse on GPIO 0.
CONSTANTS
  Cards = {card0, card1}
  ResetPin = 0
  NoCard = NoCard
SPECIFICATION Spec
INVARIANTS
  TypeOK
  LandminesUntouched
  TunedClocksStay
  
  FrontendReady
