SPECIFICATION Spec
CONSTANTS
  sale = sale
  auction = auction
  Titles <- MCTitles
  MaxRestarts = 1
INVARIANTS
  AnnouncedOnce
