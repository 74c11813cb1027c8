SPECIFICATION Spec
CONSTANTS
  Runner = {api, migrate}
  MaxInterrupts = 2
INVARIANTS LooksStayTrue InterruptedRunsResume
PROPERTIES UpgradeIsWhole UpgradesFinish
