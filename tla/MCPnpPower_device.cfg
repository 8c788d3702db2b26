SPECIFICATION Spec
CONSTANTS
  Adapters = {a1}
  BufferQueues = {q1}
  Drivers = {cx, client}
  NetAdapterCx = cx
  Owner = client
  Callers = {device, creator, driver}
  DeviceThread = device
  CreatorThread = creator
  ClientThread = driver
  LowPower = {"PowerDownD1", "PowerDownD2", "PowerDownD3"}
  AdaptersIn = {"Added", "Prepared", "D0", "Dx"}
  BufferQueuesIn = {"D0", "Dx"}
  MaxRestarts = 1
INVARIANTS NdisContract IoFollowsPowerAndDrivers BuffersOutlastDatapath NobodyIsStuck
