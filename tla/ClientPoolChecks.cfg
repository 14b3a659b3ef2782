\* One reachable endpoint among two is never found healthy again.
SPECIFICATION FairSpec
CONSTANTS
    NumEndpoints = 2
    Slots = {r1}
    MaxClients = 1
    MaxFaults = 1
    r1 = r1
PROPERTIES
    EndpointFoundHealthy
