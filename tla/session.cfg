\* One or two options, and the safe transfer with one more.
SPECIFICATION SessionFairSpec
CONSTANTS
  Payloads = {}
  Mtus = {70, 1500}
  Senders <- DefaultSenders
  Commands <- ManyCommands
  DataSize = 60
  SignLen = 5
  VirtualMtu = 24
  MaxProbes = 2
  MaxSignals = 2
INVARIANTS SessionTypeOK ReleasedOnce OfflineIsSilent ErrorIsReported Reassembles
PROPERTIES SignalEnds
