SPECIFICATION Spec
CONSTANTS
  Pod = {"p"}
  Specs <- SomeSpecs
  Requests <- SomeRequests
  Versions <- SomeVersions
  Telemetry = {"none", "tc"}
  NoTelemetry = "none"
INVARIANT CredentialDriftDetected
