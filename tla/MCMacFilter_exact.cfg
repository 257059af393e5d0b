SPECIFICATION FilterSpec
CONSTANTS
  MAC <- Addresses
  Position = {1, 2, 3, 4}
  Hash <- MCHash
  Adder = {u1}
  Asker = {q1}
  Cleaner = {k1}
  Configured <- OnlyA
PROPERTIES ContainsExact
