SPECIFICATION FairSpec
CONSTANTS
  Producer = {p1}
  Consumer = {c1}
  Capacity = 2
  Width = 4
  MaxPackets = 6
PROPERTIES ImplementsFifo AcceptedDelivered
