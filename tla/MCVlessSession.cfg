CONSTANTS
    Plans <- MCPlans
    ReadCap = 6
    MinRequest = 3
    MaxPacket = 2
    MaxRecv = 2
CHECK_DEADLOCK FALSE
SPECIFICATION FairSpec
INVARIANTS TcpConserved Datagrams
 
