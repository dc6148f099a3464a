\* The parts may be left alone for good: nobody needs to call them again.
SPECIFICATION PartsSpec
CHECK_DEADLOCK FALSE
CONSTANTS
  MaxCalls = 6
  DrainMayFail = TRUE
  SubmitMayFail = TRUE
  DupMayFail = TRUE
  Ctls = {"vol", "sw", "mux", "eq", "iec"}
  CtlType <- MCCtlType
  NumValues <- MCNumValues
  NumEnums = 3
  PathNames = {"spk", "hs", "mix", "none"}
  Documents <- MCDocuments
  MaxApply = 1
  MaxUncounted = 1
  MaxLayers = 2
  MaxFences = 2
  RealFns = {"setVsyncEnabled"}
  InputDevices = {"handset", "headset"}
  MaxParses = 2
  UsbCards = {1, 2}
  StreamFiles <- MCStreamFiles
  MaxPlugs = 2
  MaxInits = 2
  MaxClients = 3
  MaxManagers = 2
  MaxInFlight = 2
  SmSources <- MCSmSources
  SmStreams = {"out", "in"}
  MaxChanges = 2
INVARIANTS
  RouteIsDrainable FdsAccounted PathsAccounted EndpointsIndependent EntriesInPlace UsbViewTrue ClientsSound MonitorSound
PROPERTIES ImplementsFb0 SharedCtlSurvives
