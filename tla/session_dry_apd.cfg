\* --dry-run with --apd-send.
SPECIFICATION SessionFairSpec
CONSTANTS
  Payloads = {}
  Mtus = {70, 1500}
  Senders <- DefaultSenders
  Commands <- ApdCommands
  DataSize = 60
  SignLen = 5
  VirtualMtu = 24
  MaxProbes = 2
  MaxSignals = 2
INVARIANTS DryRunSendsNothing
