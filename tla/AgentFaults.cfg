\* Two agents, every failure but a 207.
CONSTANTS
  Agents = {ag1, ag2}
  Keys <- MCKeys
  Limit = 2
  MaxRows = 3
  MaxFailures = 2
  Faults = {"crash", "refuse", "disconnect", "late", "markfails"}
  Broken = {}
SPECIFICATION Spec
INVARIANTS TypeOK SyncedIsDelivered FirstDeliveriesInOrder
PROPERTY OutboxSpec
