\* One adapter and its device, and an OID thread; or a device for which two
\* threads may ask for a reset. The power callbacks come in every order WDF
\* makes them.
SPECIFICATION Spec
CONSTANTS
  Callers = {WdfThread, DatapathThread, OidThread}
  WdfThread = WdfThread
  DatapathThread = DatapathThread
  Requesters = {r1, r2}
  MaxResetQueue = 2
  Ndis = Ndis
  PnpPower = PnpPower
CONSTRAINT OneConcern
INVARIANTS
  PowerWaits
PROPERTIES
  DatapathImplemented
  EverybodyReturns
