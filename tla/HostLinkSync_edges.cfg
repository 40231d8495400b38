CONSTANTS
    alpha = alpha
    beta = beta
    east = east
    west = west
    Hosts <- TwoHosts
    Uuids = {1, 2}
    Serials <- HostSerials
    Links <- SomeLinks
    Groups = {1, 2}
    ClusterOf <- TwoClusters
    MaxDeploys = 2
SPECIFICATION FairSpec
INVARIANTS TypeOK TablesAgree
PROPERTIES DeploysSurvive Converges
