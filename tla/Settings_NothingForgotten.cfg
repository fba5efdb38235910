SPECIFICATION SettingsSpec
CONSTANTS
  Titles = {ta, tb}
  Games = {ga}
  Sizes = {1, 2, 3, 4}
  Fitting = {1, 2, 3}
  Standard = {1, 3, 4}
  MaxFields = 3
  CardFails = FALSE
INVARIANTS NothingForgotten
