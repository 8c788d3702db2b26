\* Two threads ask for a reset at once; the device has no adapter.
SPECIFICATION Spec
CONSTANTS
  Callers = {WdfThread, DatapathThread}
  WdfThread = WdfThread
  DatapathThread = DatapathThread
  Requesters = {r1, r2}
  MaxResetQueue = 2
  Ndis = Ndis
  PnpPower = PnpPower
CONSTRAINT OneConcern
INVARIANT NoResetAfterRemoval
