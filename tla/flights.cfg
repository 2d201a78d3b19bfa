CONSTANTS
    Calls = {a, b}
    Keys = {latest, explicit}
    Flights = {f, g}
    Warnings = {schema}
    Nobody = Nobody
SPECIFICATION FairSpec
INVARIANTS OneFlightPerKey CancelIsPrivate ReportTellsResult WarnOnce
PROPERTIES CallsReturn CallsReported
